---- MODULE Spec2Model ----
(***************************************************************************)
(* A model of the cart / order / payment logic of the RMS backend:         *)
(*   orders/views.py, orders/signals.py, orders/signals_cart.py,           *)
(*   payments/services.py, payments/views.py, coupons/models.py.           *)
(*                                                                         *)
(* Four specifications share the module's variables:                       *)
(*   Spec        whole requests, one after another (no overlap)            *)
(*   SpecConc    two order-assembling requests with interleaved steps      *)
(*   SpecNorm    the three cart normalizers as pure functions              *)
(*   SpecCoupon  Coupon.is_valid_now as a pure function                    *)
(* Money is in integer cents.                                              *)
(***************************************************************************)
EXTENDS Integers, Sequences, FiniteSets, TLC

(***************************************************************************)
(* Bounds of the model.                                                    *)
(***************************************************************************)
\* longest raw list handed to a normalizer in SpecNorm
MaxLen == 2
\* times, validity-window ends and "now" range over 0..MaxTime in SpecCoupon
MaxTime == 2
\* usage caps and usage counters range over 0..MaxUses in SpecCoupon
MaxUses == 2
\* coupon percents range over 0..MaxPercent in SpecCoupon
MaxPercent == 2
\* orders the database may hold
MaxOrders == 2
\* entries a session cart or a request's item list may hold
MaxCart == 2
\* largest quantity of one order line (merges that would exceed it are not taken)
MaxLineQty == 2
\* checkout sessions the payment provider may hold
MaxStripe == 2
\* how many consecutive repetitions of one request are counted
MaxRepeat == 2
\* menu items of the catalog: 1..MaxMenuItem
MaxMenuItem == 1
\* users: 1..MaxUsers
MaxUsers == 2
MaxRequests == 2

(***************************************************************************)
(* Python values, as far as the normalizers look at them.                  *)
(*   t = "absent"  the key is not in the dict                              *)
(*   t = "none"    None                                                    *)
(*   t = "int"     the integer n                                           *)
(*   t = "float"   the float n/10                                          *)
(*   t = "str"     the string s                                            *)
(***************************************************************************)
PyAbsent == [t |-> "absent", n |-> 0, s |-> ""]
PyNone == [t |-> "none", n |-> 0, s |-> ""]
PyInt(n) == [t |-> "int", n |-> n, s |-> ""]
PyFloat(tenths) == [t |-> "float", n |-> tenths, s |-> ""]
PyStr(s) == [t |-> "str", n |-> 0, s |-> s]

\* bool(v): None, 0, 0.0 and "" are falsy
Truthy(v) ==
  CASE v.t = "int" -> v.n # 0
    [] v.t = "float" -> v.n # 0
    [] v.t = "str" -> v.s # ""
    [] OTHER -> FALSE

\* a or b
PyOr(a, b) == IF Truthy(a) THEN a ELSE b

\* the strings int() parses, with surrounding whitespace and leading zeros
IntStrings == {"0", "1", "2", "3", "-1", " 2", "02"}

IntOfStr(s) ==
  CASE s = "0" -> 0
    [] s = "1" -> 1
    [] s = "2" -> 2
    [] s = "3" -> 3
    [] s = "-1" -> -1
    [] s = " 2" -> 2
    [] s = "02" -> 2
    [] OTHER -> 0

\* whether int(v) returns (it raises TypeError on None, ValueError on "abc", "", "2.5")
CanInt(v) ==
  CASE v.t = "int" -> TRUE
    [] v.t = "float" -> TRUE
    [] v.t = "str" -> v.s \in IntStrings
    [] OTHER -> FALSE

\* int(v): floats truncate towards zero
ToInt(v) ==
  CASE v.t = "int" -> v.n
    [] v.t = "float" -> IF v.n >= 0 THEN v.n \div 10 ELSE -((-v.n) \div 10)
    [] v.t = "str" -> IntOfStr(v.s)
    [] OTHER -> 0

Digit(d) ==
  CASE d = 0 -> "0" [] d = 1 -> "1" [] d = 2 -> "2" [] d = 3 -> "3" [] d = 4 -> "4"
    [] d = 5 -> "5" [] d = 6 -> "6" [] d = 7 -> "7" [] d = 8 -> "8" [] OTHER -> "9"

RECURSIVE NatStr(_)
NatStr(n) == IF n < 10 THEN Digit(n) ELSE NatStr(n \div 10) \o Digit(n % 10)

\* str(v) of an int, a float or a str
PyStrOf(v) ==
  CASE v.t = "str" -> v.s
    [] v.t = "int" -> IF v.n < 0 THEN "-" \o NatStr(-v.n) ELSE NatStr(v.n)
    [] v.t = "float" ->
         (IF v.n < 0 THEN "-" ELSE "")
           \o NatStr((IF v.n < 0 THEN -v.n ELSE v.n) \div 10) \o "."
           \o Digit((IF v.n < 0 THEN -v.n ELSE v.n) % 10)
    [] OTHER -> "None"

Max(a, b) == IF a >= b THEN a ELSE b

(***************************************************************************)
(* A dict of a cart payload: every key the normalizers read, PyAbsent for  *)
(* a key the dict does not have.                                           *)
(***************************************************************************)
EmptyDict ==
  [menu_item_id |-> PyAbsent, menu_item |-> PyAbsent, product |-> PyAbsent,
   id |-> PyAbsent, sku |-> PyAbsent, quantity |-> PyAbsent, qty |-> PyAbsent]

\* raw.get(k)
Get(v) == IF v.t = "absent" THEN PyNone ELSE v

\* raw.get(k, default)
GetOr(v, default) == IF v.t = "absent" THEN default ELSE v

\* the dict {"id": pid, "quantity": qty} the order normalizers emit
IdQtyDict(item) == [EmptyDict EXCEPT !.id = PyInt(item.id), !.quantity = PyInt(item.quantity)]

\* the dict {"menu_item": m, "quantity": qty} the signals_cart normalizer emits
MenuItemQtyDict(item) ==
  [EmptyDict EXCEPT !.menu_item = PyInt(item.menu_item), !.quantity = PyInt(item.quantity)]

(***************************************************************************)
(* orders/views.py _normalize_items                                        *)
(***************************************************************************)
ViewsPid(raw) ==
  PyOr(PyOr(PyOr(Get(raw.menu_item_id), Get(raw.menu_item)), Get(raw.product)), Get(raw.id))

ViewsQty(raw) == PyOr(PyOr(Get(raw.quantity), Get(raw.qty)), PyInt(1))

\* one pass of the loop body: the entries appended for raw (none or one)
ViewsNormalizeOne(raw) ==
  LET pid == ViewsPid(raw)
      qty == ViewsQty(raw)
  IN  IF ~(CanInt(pid) /\ CanInt(qty)) THEN <<>>
      ELSE IF ToInt(pid) > 0 /\ ToInt(qty) > 0
           THEN <<[id |-> ToInt(pid), quantity |-> ToInt(qty)]>>
           ELSE <<>>

RECURSIVE ViewsNormalizeItems(_)
ViewsNormalizeItems(items_in) ==
  IF items_in = <<>> THEN <<>>
  ELSE ViewsNormalizeOne(Head(items_in)) \o ViewsNormalizeItems(Tail(items_in))

(***************************************************************************)
(* orders/signals.py _normalize_items                                      *)
(***************************************************************************)
SignalsPid(raw) ==
  PyOr(PyOr(PyOr(Get(raw.menu_item_id), Get(raw.menu_item)), Get(raw.product)), Get(raw.id))

SignalsQty(raw) == GetOr(raw.quantity, GetOr(raw.qty, PyInt(1)))

SignalsNormalizeOne(raw) ==
  LET pid == SignalsPid(raw)
      qty == SignalsQty(raw)
  IN  IF ~(CanInt(pid) /\ CanInt(qty)) THEN <<>>
      ELSE <<[id |-> ToInt(pid), quantity |-> Max(1, ToInt(qty))]>>

RECURSIVE SignalsNormalizeItems(_)
SignalsNormalizeItems(items_in) ==
  IF items_in = <<>> THEN <<>>
  ELSE SignalsNormalizeOne(Head(items_in)) \o SignalsNormalizeItems(Tail(items_in))

(***************************************************************************)
(* orders/signals_cart.py _normalize_items.  The bucket is a sequence of   *)
(* [key, quantity] in insertion order, as the defaultdict keeps its keys.  *)
(* The result is [raised, items]: int() raises out of the function on a    *)
(* quantity or a key that is no integer.                                   *)
(***************************************************************************)
CartKey(it) == PyStrOf(PyOr(PyOr(PyOr(Get(it.menu_item), Get(it.id)), Get(it.sku)), PyStr("")))

CartQty(it) == PyOr(Get(it.quantity), PyInt(0))

BucketHas(bucket, key) == \E i \in 1..Len(bucket) : bucket[i].key = key

BucketAdd(bucket, key, q) ==
  IF BucketHas(bucket, key)
  THEN [i \in 1..Len(bucket) |->
          IF bucket[i].key = key
          THEN [bucket[i] EXCEPT !.quantity = @ + q]
          ELSE bucket[i]]
  ELSE Append(bucket, [key |-> key, quantity |-> q])

\* the first loop: [raised, bucket]
RECURSIVE CartFill(_, _)
CartFill(items, bucket) ==
  IF items = <<>> THEN [raised |-> FALSE, bucket |-> bucket]
  ELSE LET it == Head(items)
           key == CartKey(it)
       IN  IF key = "" THEN CartFill(Tail(items), bucket)
           ELSE IF ~CanInt(CartQty(it)) THEN [raised |-> TRUE, bucket |-> bucket]
           ELSE CartFill(Tail(items), BucketAdd(bucket, key, Max(0, ToInt(CartQty(it)))))

CartNormalizeItems(items) ==
  LET filled == CartFill(items, <<>>)
      b == filled.bucket
  IN  IF filled.raised \/ (\E i \in 1..Len(b) : b[i].key \notin IntStrings)
      THEN [raised |-> TRUE, items |-> <<>>]
      ELSE [raised |-> FALSE,
            items |-> [i \in 1..Len(b) |->
                         [menu_item |-> IntOfStr(b[i].key),
                          quantity |-> Max(1, b[i].quantity)]]]

(***************************************************************************)
(* coupons/models.py Coupon.  A coupon is                                  *)
(*   [active, valid_from, valid_to, max_uses, times_used, percent]         *)
(* where an optional field is [set |-> FALSE, v |-> 0] for None.  Times    *)
(* are integers; a datetime is always truthy, also the one modelled as 0.  *)
(***************************************************************************)
Unset == [set |-> FALSE, v |-> 0]
Some(x) == [set |-> TRUE, v |-> x]

\* a mutant: the usage cap is compared with > instead of >=
is_valid_now_CapOffByOne(c, t) ==
  IF ~c.active THEN FALSE
  ELSE IF c.valid_from.set /\ t < c.valid_from.v THEN FALSE
  ELSE IF c.valid_to.set /\ t > c.valid_to.v THEN FALSE
  ELSE IF c.max_uses.set /\ c.times_used > c.max_uses.v THEN FALSE
  ELSE IF c.percent <= 0 THEN FALSE
  ELSE TRUE

\* Coupon.is_valid_now with timezone.now() = t
is_valid_now(c, t) ==
  IF ~c.active THEN FALSE
  ELSE IF c.valid_from.set /\ t < c.valid_from.v THEN FALSE
  ELSE IF c.valid_to.set /\ t > c.valid_to.v THEN FALSE
  ELSE IF c.max_uses.set /\ c.times_used >= c.max_uses.v THEN FALSE
  ELSE IF c.percent <= 0 THEN FALSE
  ELSE TRUE

\* Coupon.is_live
is_live(c, t) == is_valid_now(c, t)

(***************************************************************************)
(* State.                                                                  *)
(***************************************************************************)
VARIABLES
  \* the database, the browser session and the payment provider (Spec, SpecConc)
  orders, order_items, payments, menu_price, session, stripe_sessions, last_op,
  \* settings.STRIPE_CURRENCY of the running deployment
  stripe_currency,
  \* the requests in progress (SpecConc)
  threads,
  \* the normalizers' input and what they returned (SpecNorm)
  norm_in, norm_once, norm_twice,
  \* a coupon, the current time and what is_valid_now / is_live returned (SpecCoupon)
  coupon, now, usable,
  \* an order with its lines and what compute_order_total returned (SpecTotal)
  bill, bill_total

dbvars ==
  <<orders, order_items, payments, menu_price, session, stripe_sessions, last_op,
    stripe_currency>>
normvars == <<norm_in, norm_once, norm_twice>>
couponvars == <<coupon, now, usable>>
totalvars == <<bill, bill_total>>
vars == <<dbvars, threads, normvars, couponvars, totalvars>>

(***************************************************************************)
(* SpecNorm: a raw list is drawn, then normalized once, and the result is  *)
(* normalized again.                                                       *)
(***************************************************************************)
\* values under the key "id"
IdValues ==
  {PyAbsent, PyInt(0), PyInt(-1), PyInt(1), PyInt(2), PyStr("0"), PyStr("2"),
   PyStr(" 2"), PyStr("abc"), PyFloat(25)}

\* values under the key "quantity"
QtyValues ==
  {PyAbsent, PyNone, PyInt(0), PyInt(-1), PyInt(2), PyStr("3"), PyFloat(5)}

\* dicts that use the alias keys
AliasEntries ==
  {[EmptyDict EXCEPT !.menu_item_id = PyInt(0), !.id = PyInt(2), !.quantity = PyInt(1)],
   [EmptyDict EXCEPT !.menu_item = PyStr("02"), !.quantity = PyInt(1)],
   [EmptyDict EXCEPT !.product = PyInt(1), !.qty = PyInt(3)],
   [EmptyDict EXCEPT !.id = PyInt(1), !.quantity = PyInt(0), !.qty = PyInt(3)],
   [EmptyDict EXCEPT !.sku = PyStr("abc"), !.quantity = PyInt(1)]}

RawEntries ==
  {[EmptyDict EXCEPT !.id = i, !.quantity = q] : i \in IdValues, q \in QtyValues}
    \cup AliasEntries

RawLists == UNION {[1..n -> RawEntries] : n \in 0..MaxLen}

NotRun == [done |-> FALSE, views |-> <<>>, views_each |-> <<>>, signals |-> <<>>,
           signals_each |-> <<>>, cart |-> [raised |-> FALSE, items |-> <<>>]]

RECURSIVE IdQtyDicts(_)
IdQtyDicts(items) ==
  IF items = <<>> THEN <<>> ELSE <<IdQtyDict(Head(items))>> \o IdQtyDicts(Tail(items))

RECURSIVE MenuItemQtyDicts(_)
MenuItemQtyDicts(items) ==
  IF items = <<>> THEN <<>>
  ELSE <<MenuItemQtyDict(Head(items))>> \o MenuItemQtyDicts(Tail(items))

\* what the three normalizers return on the raw list l; views_each and signals_each
\* hold, per input entry, what the loop body appended for it
RunNormalizers(lv, ls, lc) ==
  [done |-> TRUE,
   views |-> ViewsNormalizeItems(lv),
   views_each |-> [i \in 1..Len(lv) |-> ViewsNormalizeOne(lv[i])],
   signals |-> SignalsNormalizeItems(ls),
   signals_each |-> [i \in 1..Len(ls) |-> SignalsNormalizeOne(ls[i])],
   cart |-> CartNormalizeItems(lc)]

\* STRIPE_CURRENCY when the environment does not set it
ConfIdle == stripe_currency = "usd"

DbIdle ==
  /\ orders = <<>>
  /\ order_items = <<>>
  /\ payments = <<>>
  /\ menu_price = <<>>
  /\ session = [cart |-> <<>>, cart_meta |-> "", user |-> 0,
                coupon_code |-> "", applied_coupon |-> ""]
  /\ stripe_sessions = <<>>
  /\ last_op = [op |-> "none", order |-> 0, arg |-> 0, ok |-> TRUE, n |-> 0]
  /\ threads = <<>>

NormIdle ==
  /\ norm_in = <<>>
  /\ norm_once = NotRun
  /\ norm_twice = NotRun

CouponIdle ==
  /\ coupon = [active |-> FALSE, valid_from |-> Unset, valid_to |-> Unset,
               max_uses |-> Unset, times_used |-> 0, percent |-> 0]
  /\ now = 0
  /\ usable = [done |-> FALSE, is_valid_now |-> FALSE, is_live |-> FALSE]

NotComputed == -1

TotalIdle ==
  /\ bill = <<>>
  /\ bill_total = NotComputed

InitNorm ==
  /\ ConfIdle
  /\ norm_in \in RawLists
  /\ norm_once = NotRun
  /\ norm_twice = NotRun
  /\ DbIdle
  /\ CouponIdle
  /\ TotalIdle

NormalizeOnce ==
  /\ ~norm_once.done
  /\ norm_once' = RunNormalizers(norm_in, norm_in, norm_in)
  /\ UNCHANGED <<norm_in, norm_twice, dbvars, threads, couponvars, totalvars>>

\* each normalizer is applied to its own output (the cart normalizer only when it
\* returned)
NormalizeAgain ==
  /\ norm_once.done
  /\ ~norm_twice.done
  /\ norm_twice' = RunNormalizers(IdQtyDicts(norm_once.views), IdQtyDicts(norm_once.signals),
                                  MenuItemQtyDicts(norm_once.cart.items))
  /\ UNCHANGED <<norm_in, norm_once, dbvars, threads, couponvars, totalvars>>

NextNorm == NormalizeOnce \/ NormalizeAgain

SpecNorm == InitNorm /\ [][NextNorm]_vars

(***************************************************************************)
(* SpecCoupon: a coupon and a time are drawn and is_valid_now and is_live  *)
(* are evaluated.                                                          *)
(***************************************************************************)
OptionalTimes == {Unset} \cup {Some(x) : x \in 0..MaxTime}
OptionalUses == {Unset} \cup {Some(x) : x \in 0..MaxUses}

Coupons ==
  [active : BOOLEAN, valid_from : OptionalTimes, valid_to : OptionalTimes,
   max_uses : OptionalUses, times_used : 0..MaxUses, percent : 0..MaxPercent]

InitCoupon ==
  /\ ConfIdle
  /\ coupon \in Coupons
  /\ now \in 0..MaxTime
  /\ usable = [done |-> FALSE, is_valid_now |-> FALSE, is_live |-> FALSE]
  /\ DbIdle
  /\ NormIdle
  /\ TotalIdle

EvaluateCoupon ==
  /\ ~usable.done
  /\ usable' = [done |-> TRUE, is_valid_now |-> is_valid_now(coupon, now),
                is_live |-> is_live(coupon, now)]
  /\ UNCHANGED <<coupon, now, dbvars, threads, normvars, totalvars>>

NextCoupon == EvaluateCoupon

SpecCoupon == InitCoupon /\ [][NextCoupon]_vars

(***************************************************************************)
(* C10: Coupon.is_valid_now() and is_live() return true exactly when the   *)
(* coupon is active, the current time is not before valid_from and not     *)
(* after valid_to (an unset end does not restrict), max_uses is unset or   *)
(* times_used < max_uses, and percent > 0.                                 *)
(***************************************************************************)
CurrentlyUsable ==
  /\ coupon.active
  /\ (coupon.valid_from.set => ~(now < coupon.valid_from.v))
  /\ (coupon.valid_to.set => ~(now > coupon.valid_to.v))
  /\ (~coupon.max_uses.set \/ coupon.times_used < coupon.max_uses.v)
  /\ coupon.percent > 0

C10_UsableExactlyWhen ==
  usable.done =>
    /\ usable.is_valid_now = CurrentlyUsable
    /\ usable.is_live = CurrentlyUsable

\* a coupon at its usage cap, otherwise fine, was evaluated
C10_Witness_AtCap ==
  /\ usable.done
  /\ coupon.active /\ coupon.percent > 0
  /\ coupon.max_uses.set /\ coupon.max_uses.v > 0
  /\ coupon.times_used = coupon.max_uses.v
  /\ coupon.valid_from.set /\ coupon.valid_to.set
  /\ coupon.valid_from.v <= now /\ now <= coupon.valid_to.v
  /\ ~usable.is_valid_now

(***************************************************************************)
(* What the claims about the normalizers call an entry's id and quantity:  *)
(* the values given under the id keys and under the quantity keys (a key   *)
(* that is missing or None gives nothing).                                 *)
(***************************************************************************)
Given(vs) == {v \in vs : v.t \notin {"absent", "none"}}
GivenIds(raw) == Given({raw.menu_item_id, raw.menu_item, raw.product, raw.id})
GivenQtys(raw) == Given({raw.quantity, raw.qty})
CoercesPositive(v) == CanInt(v) /\ ToInt(v) > 0
CoercesNonPositive(v) == CanInt(v) /\ ToInt(v) <= 0

\* no id given coerces to a positive integer, or a quantity is given and none
\* given coerces to a positive integer
FailsToCoerce(raw) ==
  \/ \A v \in GivenIds(raw) : ~CoercesPositive(v)
  \/ GivenQtys(raw) # {} /\ \A v \in GivenQtys(raw) : ~CoercesPositive(v)

\* every id given, or every quantity given, is an integer <= 0
NonPositiveEntry(raw) ==
  \/ GivenIds(raw) # {} /\ \A v \in GivenIds(raw) : CoercesNonPositive(v)
  \/ GivenQtys(raw) # {} /\ \A v \in GivenQtys(raw) : CoercesNonPositive(v)

AllPositive(items) ==
  \A i \in 1..Len(items) : items[i].id > 0 /\ items[i].quantity > 0

(***************************************************************************)
(* C7: every entry the session-cart normalizer (orders/views.py) returns   *)
(* has id > 0 and quantity > 0, and an input entry whose id or quantity    *)
(* does not coerce to a positive integer contributes nothing to the output.*)
(***************************************************************************)
C7_ViewsDropsWhatFailsToCoerce ==
  norm_once.done =>
    /\ AllPositive(norm_once.views)
    /\ \A i \in 1..Len(norm_in) :
         FailsToCoerce(norm_in[i]) => norm_once.views_each[i] = <<>>

(***************************************************************************)
(* C8: every entry the login-merge normalizer (orders/signals.py) returns  *)
(* has id > 0 and quantity > 0, and an input entry with a non-positive id  *)
(* or a non-positive quantity contributes nothing to the output.           *)
(***************************************************************************)
C8_SignalsDropsNonPositive ==
  norm_once.done =>
    /\ AllPositive(norm_once.signals)
    /\ \A i \in 1..Len(norm_in) :
         NonPositiveEntry(norm_in[i]) => norm_once.signals_each[i] = <<>>

(***************************************************************************)
(* C9: normalizing a normalized list changes nothing, for the session-cart *)
(* normalizer, the login-merge normalizer and the de-duplicating           *)
(* normalizer of signals_cart (where it returned).                         *)
(***************************************************************************)
C9_NormalizeIdempotent ==
  norm_twice.done =>
    /\ norm_twice.views = norm_once.views
    /\ norm_twice.signals = norm_once.signals
    /\ (~norm_once.cart.raised => norm_twice.cart = norm_once.cart)

(***************************************************************************)
(* The database, the session and the payment provider.                     *)
(*                                                                         *)
(*   orders[id]        [created_by, status, is_paid, service_type,         *)
(*                      subtotal, discount_amount, invoice_pdf]            *)
(*                     created_by = 0 is NULL (a guest order)              *)
(*   order_items[id]   [order, menu_item, quantity, unit_price]            *)
(*   payments[id]      [order, amount, is_paid, stripe_session_id,         *)
(*                      stripe_payment_intent]; the id 0 is the string ""  *)
(*   menu_price[item]  the catalog price of each MenuItem                  *)
(*   session           [cart, cart_meta, user]; user = 0 is anonymous      *)
(*   stripe_sessions[id] [order, amount, payment_status, payment_intent]   *)
(*   last_op           the last request handled: [op, order, arg, ok, n],  *)
(*                     n counting its consecutive repetitions              *)
(***************************************************************************)
MenuItemIds == 1..MaxMenuItem
Users == 1..MaxUsers
Prices == {999, 1250}
Allowed == {"DINE_IN", "UBEREATS", "DOORDASH", "TAKEAWAY"}

\* str(...).upper() on the service types a request sends
Upper(st) ==
  CASE st = "dine_in" -> "DINE_IN"
    [] st = "ubereats " -> "UBEREATS "
    [] st = "takeaway" -> "TAKEAWAY"
    [] st = "pizza" -> "PIZZA"
    [] OTHER -> st

\* .strip()
Strip(st) == IF st = "UBEREATS " THEN "UBEREATS" ELSE st

\* str(...).upper().strip()
UpperStrip(st) == Strip(Upper(st))

Db == [orders |-> orders, order_items |-> order_items, payments |-> payments,
       stripe_sessions |-> stripe_sessions]

Min(a, b) == IF a <= b THEN a ELSE b

SetMax(S) == CHOOSE x \in S : \A y \in S : y <= x

\* the record of the last request: its handler, the order it worked on, the event it
\* carried and whether it succeeded; the same request again counts one more
Op(name, order, arg, ok) ==
  [op |-> name, order |-> order, arg |-> arg, ok |-> ok,
   n |-> IF last_op.op = name /\ last_op.order = order /\ last_op.arg = arg /\ last_op.ok = ok
         THEN Min(last_op.n + 1, MaxRepeat)
         ELSE 1]

\* Order.objects.create(created_by=user, status="PENDING"): the other fields default
NewOrder(user) ==
  [created_by |-> user, status |-> "PENDING", is_paid |-> FALSE, service_type |-> "DINE_IN",
   subtotal |-> 0, discount_amount |-> 0, invoice_pdf |-> [stored |-> FALSE, total |-> 0]]

LinesOf(items, oid) == {i \in 1..Len(items) : items[i].order = oid}

RECURSIVE SumLines(_, _, _)
SumLines(items, oid, i) ==
  IF i > Len(items) THEN 0
  ELSE (IF items[i].order = oid THEN items[i].quantity * items[i].unit_price ELSE 0)
         + SumLines(items, oid, i + 1)

\* Decimal amounts are exact: an amount is the fraction n/d of a cent, in lowest terms
RECURSIVE Gcd(_, _)
Gcd(a, b) == IF b = 0 THEN a ELSE Gcd(b, a % b)

Abs(x) == IF x < 0 THEN -x ELSE x

Rat(n, d) == [n |-> n \div Gcd(Abs(n), d), d |-> d \div Gcd(Abs(n), d)]

\* total * (Decimal(100) - p) / Decimal(100)
PercentOff(total, p) == Rat(total.n * (100 - p), total.d * 100)

\* total - a, a in cents
AmountOff(total, a) == Rat(total.n - a * total.d, total.d)

\* quantize(Decimal("0.01"), rounding=ROUND_HALF_UP) of an amount >= 0, in cents
QuantizeHalfUp(total) == (2 * total.n + total.d) \div (2 * total.d)

\* getattr(order, f) or 0 under hasattr(order, f): 0 when the order has no such attribute
Attr(order, f) == IF f \in DOMAIN order THEN order[f] ELSE 0

\* the percent discounts of _apply_order_discounts, in the order they are applied:
\* discount_percent, coupon_percent, coupon.percent (0: none)
PercentSources(order) ==
  <<Attr(order, "discount_percent"), Attr(order, "coupon_percent"), Attr(order, "coupon")>>

\* the fixed discounts: discount_amount, coupon_amount
AmountSources(order) == <<Attr(order, "discount_amount"), Attr(order, "coupon_amount")>>

\* the running total after the first k percent discounts
RECURSIVE AfterPercents(_, _, _)
AfterPercents(total, ps, k) ==
  IF k = 0 THEN total
  ELSE LET t == AfterPercents(total, ps, k - 1)
       IN  IF ps[k] # 0 THEN PercentOff(t, ps[k]) ELSE t

RECURSIVE AfterAmounts(_, _, _)
AfterAmounts(total, as, k) ==
  IF k = 0 THEN total
  ELSE LET t == AfterAmounts(total, as, k - 1)
       IN  IF as[k] # 0 THEN AmountOff(t, as[k]) ELSE t

\* a mutant: the result is quantized without max(Decimal("0.00"), total)
apply_order_discounts_NoFloor(order, total) ==
  LET t == AfterAmounts(AfterPercents(Rat(total, 1), PercentSources(order), 3),
                        AmountSources(order), 2)
  IN  IF t.n < 0 THEN -QuantizeHalfUp([n |-> -t.n, d |-> t.d]) ELSE QuantizeHalfUp(t)

\* _apply_order_discounts: total and result in cents
apply_order_discounts(order, total) ==
  LET t == AfterAmounts(AfterPercents(Rat(total, 1), PercentSources(order), 3),
                        AmountSources(order), 2)
  IN  IF t.n < 0 THEN 0 ELSE QuantizeHalfUp(t)

\* compute_order_total: the sum of the lines, less the discounts
compute_order_total(db, oid) ==
  apply_order_discounts(db.orders[oid], SumLines(db.order_items, oid, 1))

PaymentsOf(pays, oid) == {i \in 1..Len(pays) : pays[i].order = oid}

\* _currency(): settings lower-cases STRIPE_CURRENCY when it loads, so lower() has
\* nothing left to change
Currency == IF stripe_currency = "" THEN "usd" ELSE stripe_currency

\* a mutant: a Payment is created on every call
ensure_payment_AlwaysCreates(db, oid) ==
  [db EXCEPT !.payments =
     Append(db.payments,
            [order |-> oid, amount |-> compute_order_total(db, oid),
             currency |-> Currency, is_paid |-> FALSE,
             stripe_session_id |-> 0, stripe_payment_intent |-> 0])]

\* a mutant: amount and currency are written only when the Payment is created
ensure_payment_SyncsOnCreate(db, oid) ==
  IF PaymentsOf(db.payments, oid) # {} THEN db
  ELSE [db EXCEPT !.payments =
          Append(@, [order |-> oid, amount |-> compute_order_total(db, oid),
                     currency |-> Currency, is_paid |-> FALSE,
                     stripe_session_id |-> 0, stripe_payment_intent |-> 0])]

\* ensure_payment: get_or_create, then amount is set to the order's total and
\* currency to the configured one
ensure_payment(db, oid) ==
  LET pays == IF PaymentsOf(db.payments, oid) = {}
              THEN Append(db.payments,
                          [order |-> oid, amount |-> 0, currency |-> Currency,
                           is_paid |-> FALSE,
                           stripe_session_id |-> 0, stripe_payment_intent |-> 0])
              ELSE db.payments
      p == CHOOSE i \in PaymentsOf(pays, oid) : TRUE
  IN  [db EXCEPT !.payments = [pays EXCEPT ![p].amount = compute_order_total(db, oid),
                                           ![p].currency = Currency]]

ThePayment(db, oid) == CHOOSE i \in PaymentsOf(db.payments, oid) : TRUE

\* a mutant: the Payment is ensured but no session is created at the provider
create_checkout_session_NoSession(db, oid) ==
  [raised |-> FALSE, db |-> ensure_payment(db, oid)]

\* create_checkout_session: [raised, db].  ValueError is raised after ensure_payment
\* has saved; the provider's new session has no payment intent yet.
create_checkout_session(db, oid) ==
  LET d1 == ensure_payment(db, oid)
      amount == compute_order_total(d1, oid)
      sid == Len(d1.stripe_sessions) + 1
      p == ThePayment(d1, oid)
  IN  IF amount <= 0 THEN [raised |-> TRUE, db |-> d1]
      ELSE [raised |-> FALSE,
            db |-> [d1 EXCEPT
                      !.stripe_sessions =
                         Append(@, [order |-> oid, amount |-> amount,
                                    payment_status |-> "unpaid", payment_intent |-> 0]),
                      !.payments[p].stripe_session_id = sid,
                      !.payments[p].stripe_payment_intent = 0]]

\* a mutant: the status is written without looking at the current one, and an order
\* that is already PAID is put back to PENDING
mark_paid_Toggles(db, oid, payment_intent_id, session_id) ==
  [db EXCEPT !.orders[oid].status = IF @ = "PAID" THEN "PENDING" ELSE "PAID"]

\* mark_paid, its first save: the Payment is found or created, is_paid and the ids
\* are set, pay.save(update_fields=...)
mark_paid_Payment(db, oid, payment_intent_id, session_id) ==
  LET d1 == ensure_payment(db, oid)
      p == ThePayment(d1, oid)
      pay0 == d1.payments[p]
      pay1 == [pay0 EXCEPT !.is_paid = TRUE]
      pay2 == IF payment_intent_id # 0
              THEN [pay1 EXCEPT !.stripe_payment_intent = payment_intent_id] ELSE pay1
      pay3 == IF session_id # 0 THEN [pay2 EXCEPT !.stripe_session_id = session_id] ELSE pay2
  IN  [d1 EXCEPT !.payments[p] = pay3]

\* mark_paid, its second save: order.save(update_fields=["status"]) when the status
\* of the Order instance the caller loaded is not PAID
mark_paid_Status(db, oid, loaded_status) ==
  IF loaded_status # "PAID" THEN [db EXCEPT !.orders[oid].status = "PAID"] ELSE db

\* mark_paid
mark_paid(db, oid, payment_intent_id, session_id) ==
  mark_paid_Status(mark_paid_Payment(db, oid, payment_intent_id, session_id), oid,
                   db.orders[oid].status)

\* a mutant: the invoice is generated and stored on every call
save_invoice_pdf_file_Overwrites(db, oid) ==
  [db EXCEPT !.orders[oid].invoice_pdf =
                [stored |-> TRUE, total |-> compute_order_total(db, oid)]]

\* save_invoice_pdf_file: the invoice is stored only when the order has none
save_invoice_pdf_file(db, oid) ==
  IF db.orders[oid].invoice_pdf.stored THEN db
  ELSE [db EXCEPT !.orders[oid].invoice_pdf =
                     [stored |-> TRUE, total |-> compute_order_total(db, oid)]]

\* the PENDING unpaid orders of a user
PendingOrders(ords, user) ==
  {i \in 1..Len(ords) :
     ords[i].created_by = user /\ ords[i].status = "PENDING" /\ ~ords[i].is_paid}

\* MenuItem.objects.get(pk=pid) finds every item of the list
AllInMenu(items) == \A i \in 1..Len(items) : items[i].id \in DOMAIN menu_price

CartIds(items) == {items[i].id : i \in 1..Len(items)}

\* existing = {oi.menu_item_id: oi for oi in order.items}: the line kept for pid is the
\* last one of the order (0: none)
ExistingLine(rows, oid, pid) ==
  LET c == {i \in LinesOf(rows, oid) : rows[i].menu_item = pid}
  IN  IF c = {} THEN 0 ELSE SetMax(c)

\* the loop of merge: existing is built once, before the loop
UpsertItems(rows, existing, oid, items) ==
  LET F[k \in 0..Len(items)] ==
        IF k = 0 THEN rows
        ELSE LET it == items[k]
                 e == existing[it.id]
             IN  IF e # 0
                 THEN [F[k - 1] EXCEPT ![e].quantity = @ + it.quantity,
                                       ![e].unit_price = menu_price[it.id]]
                 ELSE Append(F[k - 1], [order |-> oid, menu_item |-> it.id,
                                        quantity |-> it.quantity,
                                        unit_price |-> menu_price[it.id]])
  IN  F[Len(items)]

\* a mutant: the lookup of the user's PENDING order is skipped
FindOrCreate_AlwaysCreates(db, user) ==
  [oid |-> Len(db.orders) + 1, db |-> [db EXCEPT !.orders = Append(@, NewOrder(user))]]

\* the select of merge: the user's newest PENDING unpaid order (0: none)
SelectPending(db, user) ==
  IF PendingOrders(db.orders, user) # {} THEN SetMax(PendingOrders(db.orders, user)) ELSE 0

\* if not order: order = Order.objects.create(created_by=user, status="PENDING")
CreateIfNone(db, user, found) ==
  IF found # 0 THEN [oid |-> found, db |-> db]
  ELSE [oid |-> Len(db.orders) + 1, db |-> [db EXCEPT !.orders = Append(@, NewOrder(user))]]

\* the order the merge writes to
FindOrCreate(db, user) == CreateIfNone(db, user, SelectPending(db, user))

\* a mutant: no rollback; what was written before the missing MenuItem stays
UpsertInto_KeepsPartialWrites(db, f, items) ==
  LET existing == [pid \in CartIds(items) |-> ExistingLine(f.db.order_items, f.oid, pid)]
      missing == {k \in 1..Len(items) : items[k].id \notin DOMAIN menu_price}
      done == IF missing = {} THEN items
              ELSE SubSeq(items, 1, (CHOOSE k \in missing : \A j \in missing : k <= j) - 1)
  IN  [raised |-> missing # {}, oid |-> IF missing # {} THEN 0 ELSE f.oid,
       db |-> [f.db EXCEPT !.order_items = UpsertItems(@, existing, f.oid, done)]]

\* the upsert of the items into the order f.oid of f.db: [raised, oid, db]; a missing
\* MenuItem raises and the transaction is rolled back to db
UpsertInto(db, f, items) ==
  LET existing == [pid \in CartIds(items) |-> ExistingLine(f.db.order_items, f.oid, pid)]
  IN  IF ~AllInMenu(items) THEN [raised |-> TRUE, oid |-> 0, db |-> db]
      ELSE [raised |-> FALSE, oid |-> f.oid,
            db |-> [f.db EXCEPT !.order_items = UpsertItems(@, existing, f.oid, items)]]

\* the transaction of merge / merge_session_cart_into_user on normalized items
MergeTransaction(db, user, items) == UpsertInto(db, FindOrCreate(db, user), items)

LineQtysWithin(rows) == \A i \in 1..Len(rows) : rows[i].quantity <= MaxLineQty

(***************************************************************************)
(* Spec: the requests, each handled as a whole.                            *)
(***************************************************************************)
\* the dicts of a request's "items"
RequestEntries ==
  {[EmptyDict EXCEPT !.id = PyInt(i), !.quantity = PyInt(1)] : i \in 1..(MaxMenuItem + 1)}

RequestItems == UNION {[1..n -> RequestEntries] : n \in 0..MaxCart}

\* the service_type of a request body ("" when it has none)
RequestServiceTypes == {"", "ubereats "}

SetDb(d) ==
  /\ orders' = d.orders
  /\ order_items' = d.order_items
  /\ payments' = d.payments
  /\ stripe_sessions' = d.stripe_sessions

\* _cart_get then _normalize_items, as every cart handler of orders/views.py reads it
SessionCart == ViewsNormalizeItems(IdQtyDicts(session.cart))

\* SessionCartViewSet.create: the cart is replaced; _enrich raises on an unknown
\* item, the response is a 500 and the session is not saved
CartCreate(raw_items) ==
  LET items == ViewsNormalizeItems(raw_items)
  IN  /\ session' = IF AllInMenu(items) THEN [session EXCEPT !.cart = items] ELSE session
      /\ last_op' = Op("cart_create", 0, 0, AllInMenu(items))
      /\ UNCHANGED <<orders, order_items, payments, menu_price, stripe_sessions>>
      /\ UNCHANGED <<threads, normvars, couponvars, totalvars, stripe_currency>>

\* the staff change a MenuItem's price
SetPrice(item, price) ==
  /\ menu_price[item] # price
  /\ menu_price' = [menu_price EXCEPT ![item] = price]
  /\ last_op' = Op("set_price", 0, 0, TRUE)
  /\ UNCHANGED <<orders, order_items, payments, session, stripe_sessions>>
  /\ UNCHANGED <<threads, normvars, couponvars, totalvars, stripe_currency>>

\* SessionCartViewSet.merge (IsAuthenticated)
Merge ==
  /\ session.user # 0
  /\ LET items == SessionCart
         r == MergeTransaction(Db, session.user, items)
     IN  IF items = <<>>
         THEN /\ last_op' = Op("merge", 0, 0, FALSE)
              /\ UNCHANGED <<orders, order_items, payments, stripe_sessions>>
         ELSE /\ Len(r.db.orders) <= MaxOrders
              /\ LineQtysWithin(r.db.order_items)
              /\ SetDb(r.db)
              /\ last_op' = Op("merge", r.oid, 0, ~r.raised)
  /\ UNCHANGED <<menu_price, session, threads, normvars, couponvars, totalvars, stripe_currency>>

\* SessionLoginFromJWT.post: login() flushes the session of another user, then the
\* user_logged_in signal runs merge_session_cart_into_user
Login(user) ==
  LET flushed == session.user \notin {0, user}
      cart == IF flushed THEN <<>> ELSE session.cart
      items == SignalsNormalizeItems(IdQtyDicts(cart))
      r == MergeTransaction(Db, user, items)
  IN  /\ IF items = <<>>
         THEN /\ last_op' = Op("login", 0, 0, FALSE)
              /\ session' = IF flushed
                            THEN [cart |-> <<>>, cart_meta |-> "", user |-> user,
                                  coupon_code |-> "", applied_coupon |-> ""]
                            ELSE [session EXCEPT !.user = user]
              /\ UNCHANGED <<orders, order_items, payments, stripe_sessions>>
         ELSE /\ Len(r.db.orders) <= MaxOrders
              /\ LineQtysWithin(r.db.order_items)
              /\ SetDb(r.db)
              /\ session' = IF r.raised THEN session ELSE [session EXCEPT !.user = user]
              /\ last_op' = Op("login", r.oid, 0, ~r.raised)
      /\ UNCHANGED <<menu_price, threads, normvars, couponvars, totalvars, stripe_currency>>

\* SessionLogout.post: logout() flushes the session
Logout ==
  /\ session' = [cart |-> <<>>, cart_meta |-> "", user |-> 0,
                 coupon_code |-> "", applied_coupon |-> ""]
  /\ last_op' = Op("logout", 0, 0, TRUE)
  /\ UNCHANGED <<orders, order_items, payments, menu_price, stripe_sessions>>
  /\ UNCHANGED <<threads, normvars, couponvars, totalvars, stripe_currency>>

\* a mutant: the session cart_meta is looked at before the body
ChooseServiceType_MetaFirst(body_st, meta_st) ==
  IF meta_st \in Allowed THEN meta_st
  ELSE IF UpperStrip(body_st) \in Allowed THEN UpperStrip(body_st) ELSE "DINE_IN"

\* service_type priority: body > session cart_meta > default
ChooseServiceType(body_st, meta_st) ==
  IF UpperStrip(body_st) \in Allowed THEN UpperStrip(body_st)
  ELSE IF meta_st \in Allowed THEN meta_st ELSE "DINE_IN"

\* the lines OrderViewSet.create inserts for a new order, one per enriched item
NewOrderLines(oid, items) ==
  [i \in 1..Len(items) |->
     [order |-> oid, menu_item |-> items[i].id, quantity |-> items[i].quantity,
      unit_price |-> menu_price[items[i].id]]]

RECURSIVE EnrichSubtotal(_)
EnrichSubtotal(items) ==
  IF items = <<>> THEN 0
  ELSE menu_price[Head(items).id] * Head(items).quantity + EnrichSubtotal(Tail(items))

\* a mutant: the items of the request are added to the order that is reused
CheckoutTransaction_AddsToPending(db, user, found, items_source, service_type) ==
  LET oid == IF found = 0 THEN Len(db.orders) + 1 ELSE found
      d0 == IF found = 0
            THEN [db EXCEPT !.orders = Append(@, [NewOrder(user) EXCEPT
                                                    !.service_type = service_type])]
            ELSE [db EXCEPT !.orders[found].service_type = service_type]
      d1 == [d0 EXCEPT !.order_items = @ \o NewOrderLines(oid, items_source)]
      d2 == [d1 EXCEPT !.orders[oid].subtotal = SumLines(d1.order_items, oid, 1)]
  IN  IF items_source = <<>> /\ found = 0 THEN [status |-> 400, oid |-> 0, db |-> db]
      ELSE IF ~AllInMenu(items_source) THEN [status |-> 500, oid |-> 0, db |-> db]
      ELSE [status |-> 201, oid |-> oid, db |-> save_invoice_pdf_file(d2, oid)]

\* a mutant: a new order is built without the two checks that answer 400
CheckoutTransaction_AcceptsEmpty(db, user, found, items_source, service_type) ==
  IF found = 0
  THEN IF ~AllInMenu(items_source) THEN [status |-> 500, oid |-> 0, db |-> db]
       ELSE LET oid == Len(db.orders) + 1
                order == [NewOrder(user) EXCEPT !.service_type = service_type,
                                                !.subtotal = EnrichSubtotal(items_source)]
                d1 == [db EXCEPT !.orders = Append(@, order),
                                 !.order_items = @ \o NewOrderLines(oid, items_source)]
            IN  [status |-> 201, oid |-> oid, db |-> save_invoice_pdf_file(d1, oid)]
  ELSE LET d1 == [db EXCEPT !.orders[found].subtotal = SumLines(db.order_items, found, 1),
                            !.orders[found].service_type = service_type]
       IN  [status |-> 201, oid |-> found, db |-> save_invoice_pdf_file(d1, found)]

\* the transaction of OrderViewSet.create: [status, oid, db].  found is the user's
\* PENDING order the query returned (0: none, or an anonymous request)
CheckoutTransaction(db, user, found, items_source, service_type) ==
  IF found = 0
  THEN IF items_source = <<>> THEN [status |-> 400, oid |-> 0, db |-> db]
       ELSE IF ~AllInMenu(items_source) THEN [status |-> 500, oid |-> 0, db |-> db]
       ELSE IF EnrichSubtotal(items_source) <= 0 THEN [status |-> 400, oid |-> 0, db |-> db]
       ELSE LET oid == Len(db.orders) + 1
                order == [NewOrder(user) EXCEPT !.service_type = service_type,
                                                !.subtotal = EnrichSubtotal(items_source)]
                d1 == [db EXCEPT !.orders = Append(@, order),
                                 !.order_items = @ \o NewOrderLines(oid, items_source)]
            IN  [status |-> 201, oid |-> oid, db |-> save_invoice_pdf_file(d1, oid)]
  ELSE LET d1 == [db EXCEPT !.orders[found].subtotal = SumLines(db.order_items, found, 1),
                            !.orders[found].service_type = service_type]
       IN  [status |-> 201, oid |-> found, db |-> save_invoice_pdf_file(d1, found)]

\* OrderViewSet.create up to its response: the transaction, then the hosted checkout
\* session for DINE_IN and TAKEAWAY (an exception there is a 500 after the commit).
\* last_op.arg is the checkout_url of the response: the new session, 0 for null.
CheckoutWrites(raw_items, body_st) ==
  \E found \in (IF session.user # 0 /\ PendingOrders(orders, session.user) # {}
                THEN PendingOrders(orders, session.user) ELSE {0}) :
    LET service_type == ChooseServiceType(body_st, session.cart_meta)
        body_items == ViewsNormalizeItems(raw_items)
        items_source == IF body_items # <<>> THEN body_items ELSE SessionCart
        t == CheckoutTransaction(Db, session.user, found, items_source, service_type)
        c == create_checkout_session(t.db, t.oid)
    IN  /\ Len(t.db.orders) <= MaxOrders
        /\ IF t.status # 201
           THEN /\ UNCHANGED <<orders, order_items, payments, stripe_sessions>>
                /\ last_op' = Op("checkout", 0, 0, FALSE)
           ELSE IF service_type \in {"DINE_IN", "TAKEAWAY"}
           THEN /\ Len(c.db.stripe_sessions) <= MaxStripe
                /\ SetDb(c.db)
                /\ last_op' = Op("checkout", t.oid,
                                 IF c.raised THEN 0 ELSE Len(c.db.stripe_sessions), ~c.raised)
           ELSE /\ SetDb(t.db)
                /\ last_op' = Op("checkout", t.oid, 0, TRUE)
        /\ UNCHANGED <<menu_price, threads, normvars, couponvars, totalvars, stripe_currency>>

\* a mutant: the checkout empties the session cart
Checkout_ClearsCart(raw_items, body_st) ==
  /\ CheckoutWrites(raw_items, body_st)
  /\ session' = [session EXCEPT !.cart = <<>>]

\* OrderViewSet.create: the session is not written
Checkout(raw_items, body_st) ==
  /\ CheckoutWrites(raw_items, body_st)
  /\ UNCHANGED session

\* SessionCartViewSet.set_meta
SetMeta(body_st) ==
  /\ session' = IF UpperStrip(body_st) # "" /\ UpperStrip(body_st) \in Allowed
                THEN [session EXCEPT !.cart_meta = UpperStrip(body_st)]
                ELSE session
  /\ last_op' = Op("set_meta", 0, 0, TRUE)
  /\ UNCHANGED <<orders, order_items, payments, menu_price, stripe_sessions>>
  /\ UNCHANGED <<threads, normvars, couponvars, totalvars, stripe_currency>>

\* a mutant: the session is flushed
ResetSession_Flushes ==
  /\ session' = [cart |-> <<>>, cart_meta |-> "", user |-> 0,
                 coupon_code |-> "", applied_coupon |-> ""]
  /\ last_op' = Op("reset_session", 0, 0, TRUE)
  /\ UNCHANGED <<orders, order_items, payments, menu_price, stripe_sessions>>
  /\ UNCHANGED <<threads, normvars, couponvars, totalvars, stripe_currency>>

\* SessionCartViewSet.reset_session: cart, cart_meta and applied_coupon are popped
ResetSession ==
  /\ session' = [session EXCEPT !.cart = <<>>, !.cart_meta = "", !.applied_coupon = ""]
  /\ last_op' = Op("reset_session", 0, 0, TRUE)
  /\ UNCHANGED <<orders, order_items, payments, menu_price, stripe_sessions>>
  /\ UNCHANGED <<threads, normvars, couponvars, totalvars, stripe_currency>>

\* create_checkout_session_view (login_required), for any order id
CreateCheckoutSessionView(oid) ==
  /\ session.user # 0
  /\ LET c == create_checkout_session(Db, oid)
     IN  /\ Len(c.db.stripe_sessions) <= MaxStripe
         /\ SetDb(c.db)
         /\ last_op' = Op("create_session", 0, 0, ~c.raised)
  /\ UNCHANGED <<menu_price, session, threads, normvars, couponvars, totalvars, stripe_currency>>

\* the customer pays on the provider's hosted page: the session becomes paid and
\* gets its payment intent
PayAtStripe(sid) ==
  /\ stripe_sessions[sid].payment_status = "unpaid"
  /\ stripe_sessions' = [stripe_sessions EXCEPT ![sid].payment_status = "paid",
                                                ![sid].payment_intent = sid]
  /\ last_op' = Op("pay", 0, 0, TRUE)
  /\ UNCHANGED <<orders, order_items, payments, menu_price, session>>
  /\ UNCHANGED <<threads, normvars, couponvars, totalvars, stripe_currency>>

\* a mutant: the event is handled without construct_event's verification
stripe_webhook_SkipsVerification(db, verified, etype, sid) ==
  IF etype = "checkout.session.completed"
  THEN [status |-> 200,
        db |-> save_invoice_pdf_file(
                 mark_paid(db, db.stripe_sessions[sid].order,
                           db.stripe_sessions[sid].payment_intent, sid),
                 db.stripe_sessions[sid].order)]
  ELSE [status |-> 200, db |-> db]

\* stripe_webhook on a request about the provider's session sid: [status, db].
\* verified: construct_event accepts the signature and the payload
stripe_webhook(db, verified, etype, sid) ==
  IF ~verified THEN [status |-> 400, db |-> db]
  ELSE IF etype = "checkout.session.completed"
  THEN [status |-> 200,
        db |-> save_invoice_pdf_file(
                 mark_paid(db, db.stripe_sessions[sid].order,
                           db.stripe_sessions[sid].payment_intent, sid),
                 db.stripe_sessions[sid].order)]
  ELSE [status |-> 200, db |-> db]

\* stripe_webhook on a verified checkout.session.completed event of a paid
\* session (the provider may deliver it any number of times)
WebhookCompleted(sid) ==
  /\ stripe_sessions[sid].payment_status = "paid"
  /\ LET r == stripe_webhook(Db, TRUE, "checkout.session.completed", sid)
     IN  /\ SetDb(r.db)
         /\ last_op' = Op("webhook", stripe_sessions[sid].order, sid, r.status = 200)
  /\ UNCHANGED <<menu_price, session, threads, normvars, couponvars, totalvars, stripe_currency>>

\* stripe_webhook on a verified checkout.session.async_payment_failed or
\* payment_intent.payment_failed event: the branch is `pass`
WebhookFailed(sid) ==
  /\ stripe_sessions[sid].payment_status = "unpaid"
  /\ SetDb(stripe_webhook(Db, TRUE, "payment_intent.payment_failed", sid).db)
  /\ last_op' = Op("webhook_failed", 0, 0, TRUE)
  /\ UNCHANGED <<menu_price, session, threads, normvars, couponvars, totalvars, stripe_currency>>

\* stripe_webhook on a request that claims checkout.session.completed for session
\* sid and whose signature or payload construct_event refuses
WebhookUnverified(sid) ==
  /\ LET r == stripe_webhook(Db, FALSE, "checkout.session.completed", sid)
     IN  /\ SetDb(r.db)
         /\ last_op' = Op("webhook_rejected", stripe_sessions[sid].order, sid, r.status = 200)
  /\ UNCHANGED <<menu_price, session, threads, normvars, couponvars, totalvars, stripe_currency>>

\* checkout_success?order=oid&session_id=sid (0: the parameter is missing): the
\* order is marked paid when the retrieved session is paid, an invoice is saved
\* when the order has none, and the session cart is emptied
CheckoutSuccess(oid, sid) ==
  LET d1 == IF sid # 0 /\ oid # 0 /\ stripe_sessions[sid].payment_status = "paid"
            THEN mark_paid(Db, oid, stripe_sessions[sid].payment_intent, sid)
            ELSE Db
      d2 == IF oid # 0 THEN save_invoice_pdf_file(d1, oid) ELSE d1
  IN  /\ SetDb(d2)
      /\ session' = [session EXCEPT !.cart = <<>>]
      /\ last_op' = Op("checkout_success", oid, sid, TRUE)
      /\ UNCHANGED <<menu_price, threads, normvars, couponvars, totalvars, stripe_currency>>

EmptyDb == [orders |-> <<>>, order_items |-> <<>>, payments |-> <<>>, stripe_sessions |-> <<>>]

AnonymousSession ==
  [cart |-> <<>>, cart_meta |-> "", user |-> 0, coupon_code |-> "", applied_coupon |-> ""]

NoOp == [op |-> "none", order |-> 0, arg |-> 0, ok |-> TRUE, n |-> 0]

\* the database after user 1 has ordered one of item 1 for DINE_IN, paid on the hosted
\* page and the completed event has been handled (SpecPay reaches it from nothing)
SettledDb ==
  LET t == CheckoutTransaction(EmptyDb, 1, 0, <<[id |-> 1, quantity |-> 1]>>, "DINE_IN")
      c == create_checkout_session(t.db, 1)
      paid == [c.db EXCEPT !.stripe_sessions[1].payment_status = "paid",
                           !.stripe_sessions[1].payment_intent = 1]
  IN  save_invoice_pdf_file(mark_paid(paid, 1, 1, 1), 1)

(***************************************************************************)
(* Spec: one browser session assembling orders, one request at a time.     *)
(* The orders go to the delivery channels and prices stay fixed; the       *)
(* database starts empty or with one settled order, whose payment          *)
(* confirmation may come again.                                            *)
(***************************************************************************)
Init ==
  /\ ConfIdle
  /\ menu_price = [i \in MenuItemIds |-> 999]
  /\ \E d \in {EmptyDb, SettledDb} :
       /\ orders = d.orders
       /\ order_items = d.order_items
       /\ payments = d.payments
       /\ stripe_sessions = d.stripe_sessions
  /\ session = AnonymousSession
  /\ last_op = NoOp
  /\ threads = <<>>
  /\ NormIdle
  /\ CouponIdle
  /\ TotalIdle

Next ==
  \/ \E l \in RequestItems : CartCreate(l)
  \/ Merge
  \/ \E u \in Users : Login(u)
  \/ Logout
  \/ \E l \in RequestItems : Checkout(l, "ubereats ")
  \/ \E k \in 1..Len(stripe_sessions) : WebhookCompleted(k)
  \/ \E o \in 0..Len(orders), k \in 0..Len(stripe_sessions) : CheckoutSuccess(o, k)

Spec == Init /\ [][Next]_vars

(***************************************************************************)
(* SpecPrice: the same session while the staff change prices; nothing is   *)
(* checked out.                                                            *)
(***************************************************************************)
NextPrice ==
  \/ \E l \in RequestItems : CartCreate(l)
  \/ \E i \in MenuItemIds, p \in Prices : SetPrice(i, p)
  \/ Merge
  \/ \E u \in Users : Login(u)
  \/ Logout

SpecPrice == Init /\ [][NextPrice]_vars

(***************************************************************************)
(* SpecPay: a logged-in customer with one item in the cart checks out and  *)
(* pays; the provider delivers its events any number of times.  Prices     *)
(* stay fixed.                                                             *)
(***************************************************************************)
InitPay ==
  /\ ConfIdle
  /\ menu_price = [i \in MenuItemIds |-> 999]
  /\ orders = <<>>
  /\ order_items = <<>>
  /\ payments = <<>>
  /\ stripe_sessions = <<>>
  /\ session = [cart |-> <<[id |-> 1, quantity |-> 1]>>, cart_meta |-> "", user |-> 1,
                coupon_code |-> "", applied_coupon |-> ""]
  /\ last_op = NoOp
  /\ threads = <<>>
  /\ NormIdle
  /\ CouponIdle
  /\ TotalIdle

NextPay ==
  \/ Merge
  \/ \E st \in RequestServiceTypes : Checkout(<<>>, st)
  \/ \E o \in 1..Len(orders) : CreateCheckoutSessionView(o)
  \/ \E k \in 1..Len(stripe_sessions) : PayAtStripe(k)
  \/ \E k \in 1..Len(stripe_sessions) : WebhookCompleted(k)
  \/ \E k \in 1..Len(stripe_sessions) : WebhookFailed(k)
  \/ \E o \in 0..Len(orders), k \in 0..Len(stripe_sessions) : CheckoutSuccess(o, k)
  \/ ResetSession
  \/ \E k \in 1..Len(stripe_sessions) : WebhookUnverified(k)

SpecPay == InitPay /\ [][NextPay]_vars

(***************************************************************************)
(* SpecConc: requests of one user that assemble an order, their database   *)
(* steps interleaved.  threads.vendor is the database of the deployment    *)
(* (settings.DATABASES), threads.req[t] the request t: its handler, its    *)
(* normalized items, its position, the order its select returned and the   *)
(* lock it holds.                                                          *)
(***************************************************************************)
Requests == 1..MaxRequests

ConcUser == 1

ConcKinds == {"merge", "login", "checkout"}

ConcItems ==
  {<<[id |-> 1, quantity |-> 1]>>, <<[id |-> 1, quantity |-> 1], [id |-> 1, quantity |-> 1]>>}

Vendors == {"postgresql", "sqlite"}

\* no Order instance loaded
NoRow == NewOrder(0)

\* the Order instance a select returned.  OrderViewSet.create prefetches the lines and
\* sets the instance's total from them; the instance is saved whole later
LoadedRow(kind, found) ==
  IF found = 0 THEN NoRow
  ELSE IF kind = "checkout"
  THEN [orders[found] EXCEPT !.subtotal = SumLines(order_items, found, 1)]
  ELSE orders[found]

InitConc ==
  /\ ConfIdle
  /\ menu_price = [i \in MenuItemIds |-> 999]
  /\ \E d \in {EmptyDb, SettledDb} :
       /\ orders = d.orders
       /\ order_items = d.order_items
       /\ payments = d.payments
       /\ stripe_sessions = d.stripe_sessions
  /\ session = AnonymousSession
  /\ last_op = NoOp
  /\ \E v \in Vendors, k \in [Requests -> ConcKinds], c \in [Requests -> ConcItems] :
       threads = [vendor |-> v,
                  req |-> [t \in Requests |->
                             [kind |-> k[t], items |-> c[t], pc |-> "start",
                              found |-> 0, row |-> NoRow, lock |-> "none"]]]
  /\ NormIdle
  /\ CouponIdle
  /\ TotalIdle

\* a mutant: no select uses select_for_update
ForUpdate_Never(kind) == FALSE

\* merge and merge_session_cart_into_user select with select_for_update, OrderViewSet.create
\* without
ForUpdate(kind) == kind \in {"merge", "login"}

\* the first statement of the transaction: the select of the user's PENDING order.
\* postgresql: FOR UPDATE locks the row it returns, waits while another transaction
\* holds it, and locks nothing when there is no row.  sqlite: FOR UPDATE is not
\* emitted; the read takes the shared lock of the database file.
ConcSelect(t) ==
  LET r == threads.req[t]
      pending == PendingOrders(orders, ConcUser)
  IN  /\ r.pc = "start"
      /\ r.kind \in ConcKinds
      /\ \E found \in (IF pending = {} THEN {0}
                       ELSE IF r.kind = "checkout" THEN pending ELSE {SetMax(pending)}) :
           LET locks == threads.vendor = "postgresql" /\ ForUpdate(r.kind) /\ found # 0
           IN  /\ locks => \A u \in Requests \ {t} :
                             ~(threads.req[u].lock = "row" /\ threads.req[u].found = found)
               /\ threads' = [threads EXCEPT
                                !.req[t].pc = "selected",
                                !.req[t].found = found,
                                !.req[t].row = LoadedRow(r.kind, found),
                                !.req[t].lock = IF threads.vendor = "sqlite" THEN "shared"
                                                ELSE IF locks THEN "row" ELSE "none"]
      /\ UNCHANGED <<dbvars, normvars, couponvars, totalvars>>

\* OrderViewSet.create on the PENDING order its query returned: order.save() writes
\* every field of the loaded instance, with the total and the service_type it set;
\* save_invoice_pdf_file saves the instance again when it has no invoice
CheckoutSave(db, row, found, service_type) ==
  LET d1 == [db EXCEPT !.orders[found] = [row EXCEPT !.service_type = service_type]]
  IN  IF row.invoice_pdf.stored THEN d1
      ELSE [d1 EXCEPT !.orders[found].invoice_pdf =
                         [stored |-> TRUE, total |-> compute_order_total(d1, found)]]

\* what the rest of the transaction writes, given the order the select returned
ConcEffect(t) ==
  LET r == threads.req[t]
  IN  IF r.kind = "checkout"
      THEN IF r.found = 0
           THEN CheckoutTransaction(Db, ConcUser, 0, r.items, "UBEREATS").db
           ELSE CheckoutSave(Db, r.row, r.found, "UBEREATS")
      ELSE UpsertInto(Db, CreateIfNone(Db, ConcUser, r.found), r.items).db

\* the writes of the transaction.  postgresql: they are done and committed, the row
\* lock is released.  sqlite: the first write needs the reserved lock; when another
\* transaction holds it the statement fails with "database is locked" and the
\* transaction is rolled back.
ConcWrite(t) ==
  LET r == threads.req[t]
  IN  /\ r.pc = "selected"
      /\ Len(ConcEffect(t).orders) <= MaxOrders
      /\ LineQtysWithin(ConcEffect(t).order_items)
      /\ IF threads.vendor = "postgresql"
         THEN /\ SetDb(ConcEffect(t))
              /\ threads' = [threads EXCEPT !.req[t].pc = "done", !.req[t].lock = "none"]
         ELSE /\ UNCHANGED <<orders, order_items, payments, stripe_sessions>>
              /\ IF \E u \in Requests \ {t} : threads.req[u].lock = "reserved"
                 THEN threads' = [threads EXCEPT !.req[t].pc = "failed", !.req[t].lock = "none"]
                 ELSE threads' = [threads EXCEPT !.req[t].pc = "written",
                                                 !.req[t].lock = "reserved"]
      /\ UNCHANGED <<menu_price, session, last_op, normvars, couponvars, totalvars, stripe_currency>>

\* sqlite: the commit waits until no other transaction holds a lock on the file
ConcCommit(t) ==
  /\ threads.req[t].pc = "written"
  /\ \A u \in Requests \ {t} : threads.req[u].lock = "none"
  /\ SetDb(ConcEffect(t))
  /\ threads' = [threads EXCEPT !.req[t].pc = "done", !.req[t].lock = "none"]
  /\ UNCHANGED <<menu_price, session, last_op, normvars, couponvars, totalvars, stripe_currency>>

NextConc ==
  \/ \E t \in Requests : ConcSelect(t)
  \/ \E t \in Requests : ConcWrite(t)
  \/ \E t \in Requests : ConcCommit(t)

SpecConc == InitConc /\ [][NextConc]_vars

\* every request has been answered
AllAnswered == \A t \in Requests : threads.req[t].pc \in {"done", "failed"}

\* C4: interleaved merge / login-merge / checkout requests of a user who has no
\* PENDING order never end with two PENDING unpaid orders of that user.
C4_NoDuplicatePendingWhenInterleaved ==
  AllAnswered => Cardinality(PendingOrders(orders, ConcUser)) <= 1

(***************************************************************************)
(* The claims about payment confirmation (SpecPay).                        *)
(***************************************************************************)
\* the one Payment row of order oid in pays, reduced to the fields a confirmation sets
PaymentFacts(pays, oid) ==
  {[is_paid |-> pays[i].is_paid, stripe_session_id |-> pays[i].stripe_session_id,
    stripe_payment_intent |-> pays[i].stripe_payment_intent] : i \in PaymentsOf(pays, oid)}

\* a step that handles the completed event the previous request has already handled
IsWebhookReplay ==
  /\ last_op.op = "webhook"
  /\ last_op'.op = "webhook"
  /\ last_op'.arg = last_op.arg

\* C1: handling a checkout.session.completed event again, after it has been handled,
\* leaves the order PAID, leaves exactly one Payment row for the order, and leaves
\* that row's is_paid flag, session id and payment-intent id as the earlier handling
\* left them.
C1_WebhookReplayIdempotent ==
  [][IsWebhookReplay =>
       /\ orders'[last_op'.order].status = "PAID"
       /\ Cardinality(PaymentsOf(payments', last_op'.order)) = 1
       /\ PaymentFacts(payments', last_op'.order) = PaymentFacts(payments, last_op.order)]_vars

\* the same completed event has just been handled for the second time at least
C1_Witness_Replayed ==
  /\ last_op.op = "webhook"
  /\ last_op.n >= 2
  /\ orders[last_op.order].status = "PAID"

C3_AtMostOnePendingPerUser ==
  \A u \in Users : Cardinality(PendingOrders(orders, u)) <= 1

\* a user with a PAID order has merged twice in a row into the PENDING order opened
\* after it
C3_Witness_MergedAgainAfterPaid ==
  /\ last_op.op = "merge"
  /\ last_op.ok
  /\ last_op.n >= 2
  /\ PendingOrders(orders, session.user) = {last_op.order}
  /\ \E o \in 1..Len(orders) : orders[o].created_by = session.user /\ orders[o].status = "PAID"

\* the step is a merge (manual or on login) that went through
IsMerge == last_op'.op \in {"merge", "login"} /\ last_op'.ok

\* the rows of order oid for menu item pid
LinesFor(rows, oid, pid) == {i \in LinesOf(rows, oid) : rows[i].menu_item = pid}

RECURSIVE SumQty(_, _)
SumQty(rows, S) ==
  IF S = {} THEN 0
  ELSE LET i == CHOOSE x \in S : TRUE IN rows[i].quantity + SumQty(rows, S \ {i})

RECURSIVE CartTotal(_, _)
CartTotal(items, pid) ==
  IF items = <<>> THEN 0
  ELSE (IF Head(items).id = pid THEN Head(items).quantity ELSE 0) + CartTotal(Tail(items), pid)

\* C5: after a merge of the session cart, also of one that lists an item id more than
\* once, the order has at most one line per menu item, and the quantity of each line
\* is its quantity before the merge (0 if absent) plus the item's total in the cart.
C5_MergeSumsQuantities ==
  [][IsMerge =>
       \A pid \in MenuItemIds :
         /\ Cardinality(LinesFor(order_items', last_op'.order, pid)) <= 1
         /\ \A i \in LinesFor(order_items', last_op'.order, pid) :
              order_items'[i].quantity =
                SumQty(order_items, LinesFor(order_items, last_op'.order, pid))
                  + CartTotal(session'.cart, pid)]_vars

\* C6: a merge leaves every line of an incoming item at the current catalog price
\* (an existing line is overwritten, a missing one inserted), and leaves the lines of
\* the other items with their quantity and unit price.
C6_MergeOverwritesPrice ==
  [][IsMerge =>
       /\ \A i \in LinesOf(order_items', last_op'.order) :
            order_items'[i].menu_item \in CartIds(session'.cart) =>
              order_items'[i].unit_price = menu_price[order_items'[i].menu_item]
       /\ \A pid \in CartIds(session'.cart) : LinesFor(order_items', last_op'.order, pid) # {}
       /\ \A i \in 1..Len(order_items) :
            (order_items[i].order # last_op'.order
               \/ order_items[i].menu_item \notin CartIds(session'.cart)) =>
              order_items'[i] = order_items[i]]_vars

(***************************************************************************)
(* SpecTotal: compute_order_total on one order.  The Order model may carry *)
(* any of the discount attributes _apply_order_discounts looks for.        *)
(***************************************************************************)
BillPercents == {0, 5, 10, 150}

BillCouponPercents == {0, 10}

BillAmounts == {0, 100, 5000}

BillCouponAmounts == {0, 100}

\* the lines of the order: nothing, 1 x 0.50, 2 x 9.99, both
BillLines ==
  {<<>>,
   <<[order |-> 1, menu_item |-> 1, quantity |-> 1, unit_price |-> 50]>>,
   <<[order |-> 1, menu_item |-> 1, quantity |-> 2, unit_price |-> 999]>>,
   <<[order |-> 1, menu_item |-> 1, quantity |-> 2, unit_price |-> 999],
     [order |-> 1, menu_item |-> 2, quantity |-> 1, unit_price |-> 50]>>}

\* the orders: without the optional attributes, and with all of them
BillOrders ==
  {[NewOrder(1) EXCEPT !.discount_amount = a] : a \in BillAmounts}
  \cup {[discount_percent |-> p1, coupon_percent |-> p2, coupon |-> p3, coupon_amount |-> a2]
          @@ [NewOrder(1) EXCEPT !.discount_amount = a1] :
        p1 \in BillPercents, p2 \in BillPercents, p3 \in BillCouponPercents,
        a1 \in BillAmounts, a2 \in BillCouponAmounts}

InitTotal ==
  /\ ConfIdle
  /\ bill \in [order : BillOrders, lines : BillLines]
  /\ bill_total = NotComputed
  /\ DbIdle
  /\ NormIdle
  /\ CouponIdle

BillDb == [EmptyDb EXCEPT !.orders = <<bill.order>>, !.order_items = bill.lines]

ComputeOrderTotal ==
  /\ bill_total = NotComputed
  /\ bill_total' = compute_order_total(BillDb, 1)
  /\ UNCHANGED <<bill, dbvars, threads, normvars, couponvars>>

NextTotal == ComputeOrderTotal

SpecTotal == InitTotal /\ [][NextTotal]_vars

\* the subtotal of the bill, in cents
BillSubtotal == SumLines(bill.lines, 1, 1)

Computed == bill_total # NotComputed

\* C11: the total compute_order_total returns is never negative, whatever the lines,
\* the percent discounts and the fixed discount amounts, also when the discounts
\* exceed the subtotal.
C11_TotalNeverNegative == Computed => bill_total >= 0

\* a fixed discount larger than the subtotal has been applied to an order with lines
C11_Witness_DiscountExceedsSubtotal ==
  /\ Computed
  /\ BillSubtotal > 0
  /\ Attr(bill.order, "discount_amount") > BillSubtotal
  /\ bill_total = 0

\* the order has exactly the two percent discounts discount_percent and coupon_percent
TwoPercents ==
  /\ Attr(bill.order, "discount_percent") # 0
  /\ Attr(bill.order, "coupon_percent") # 0
  /\ Attr(bill.order, "coupon") = 0
  /\ AmountSources(bill.order) = <<0, 0>>

\* subtotal - subtotal * p1 / 100 - subtotal * p2 / 100, floored at zero, to the cent
SummedPercents(subtotal, p1, p2) ==
  IF p1 + p2 >= 100 THEN 0 ELSE QuantizeHalfUp(Rat(subtotal * (100 - p1 - p2), 100))

\* C12: with two percent discounts, each is computed against the original subtotal
\* and the two amounts are summed: the total is subtotal - subtotal*p1/100 -
\* subtotal*p2/100, floored at zero.
C12_PercentsAgainstOriginalSubtotal ==
  (Computed /\ TwoPercents) =>
     bill_total = SummedPercents(BillSubtotal, Attr(bill.order, "discount_percent"),
                                 Attr(bill.order, "coupon_percent"))

\* the order has one percent discount, of at most 100, and no fixed amount
OnePercent ==
  /\ Cardinality({k \in 1..3 : PercentSources(bill.order)[k] # 0}) = 1
  /\ \A k \in 1..3 : PercentSources(bill.order)[k] <= 100
  /\ AmountSources(bill.order) = <<0, 0>>

ThePercent ==
  PercentSources(bill.order)[CHOOSE k \in 1..3 : PercentSources(bill.order)[k] # 0]

\* C13: with a single percent discount p and no fixed amount, the total is the
\* subtotal S minus the discount, the discount being S*p/100 rounded half-up to the
\* cent (2 x 9.99 at 10 percent: discount 2.00, total 17.98).
C13_TotalIsSubtotalMinusRoundedDiscount ==
  (Computed /\ OnePercent) =>
     bill_total = BillSubtotal - QuantizeHalfUp(Rat(BillSubtotal * ThePercent, 100))

(***************************************************************************)
(* SpecMeta: the session chooses a service type and checks out, as a guest *)
(* and logged in; prices stay fixed.                                       *)
(***************************************************************************)
\* the service_type of a request body ("": none)
MetaBodies == {"", "ubereats ", "takeaway", "pizza"}

OneItemCart == <<[id |-> 1, quantity |-> 1]>>

InitMeta ==
  /\ ConfIdle
  /\ menu_price = [i \in MenuItemIds |-> 999]
  /\ orders = <<>>
  /\ order_items = <<>>
  /\ payments = <<>>
  /\ stripe_sessions = <<>>
  /\ session = [AnonymousSession EXCEPT !.cart = OneItemCart]
  /\ last_op = NoOp
  /\ threads = <<>>
  /\ NormIdle
  /\ CouponIdle
  /\ TotalIdle

NextMeta ==
  \/ \E st \in MetaBodies : SetMeta(st)
  \/ CartCreate(IdQtyDicts(OneItemCart))
  \/ Login(1)
  \/ Logout
  \/ \E st \in MetaBodies : Checkout(<<>>, st)

SpecMeta == InitMeta /\ [][NextMeta]_vars

\* the step is a checkout with body service_type st that made or reused an order
IsCheckoutOf(st) == Checkout(<<>>, st) /\ last_op'.order # 0

\* body > cart_meta > DINE_IN, the body value upper-cased
UpperCasedChoice(body_st, meta_st) ==
  IF Upper(body_st) \in Allowed THEN Upper(body_st)
  ELSE IF meta_st \in Allowed THEN meta_st ELSE "DINE_IN"

\* body > cart_meta > DINE_IN, the body value upper-cased and stripped of blanks
UpperCasedStrippedChoice(body_st, meta_st) ==
  IF Strip(Upper(body_st)) \in Allowed THEN Strip(Upper(body_st))
  ELSE IF meta_st \in Allowed THEN meta_st ELSE "DINE_IN"

\* C14: the service type a checkout gives the order is the upper-cased body value
\* when that is one of the four names, otherwise the session cart_meta value when
\* that is one of the four, otherwise DINE_IN; it is always one of the four.
C14_ServiceTypePriority ==
  [][\A st \in MetaBodies :
       IsCheckoutOf(st) =>
         /\ orders'[last_op'.order].service_type = UpperCasedChoice(st, session.cart_meta)
         /\ orders'[last_op'.order].service_type \in Allowed]_vars

\* C14, amended: the body value is upper-cased and stripped of surrounding blanks
\* before it is compared with the four names.
C14_ServiceTypePriorityStripped ==
  [][\A st \in MetaBodies :
       IsCheckoutOf(st) =>
         /\ orders'[last_op'.order].service_type
              = UpperCasedStrippedChoice(st, session.cart_meta)
         /\ orders'[last_op'.order].service_type \in Allowed]_vars

\* a checkout has just given an order the body's UBEREATS although the session's
\* cart_meta says TAKEAWAY
C14_Witness_BodyBeatsMeta ==
  /\ last_op.op = "checkout"
  /\ last_op.order # 0
  /\ orders[last_op.order].service_type = "UBEREATS"
  /\ session.cart_meta = "TAKEAWAY"

\* the step is a checkout that made or reused an order
IsCheckout == last_op'.op = "checkout" /\ last_op'.order # 0

DbAfter == [orders |-> orders', order_items |-> order_items', payments |-> payments',
            stripe_sessions |-> stripe_sessions']

C16_CheckoutKeepsSessionCart ==
  [][last_op'.op = "checkout" =>
       /\ session'.cart = session.cart
       /\ session'.cart_meta = session.cart_meta]_vars

\* a checkout has succeeded and the cart and the cart_meta are still there
C16_Witness_CartKeptAfterCheckout ==
  /\ last_op.op = "checkout"
  /\ last_op.ok
  /\ last_op.order # 0
  /\ session.cart # <<>>
  /\ session.cart_meta # ""

\* the step empties a session cart that had items, and is not an edit of the cart
EmptiesCart ==
  /\ session.cart # <<>>
  /\ session'.cart = <<>>
  /\ last_op'.op \notin {"cart_create", "remove_item"}

\* C17: apart from the user's own edits of the cart, a request empties a session
\* cart that has items only when the payment of the order has been confirmed as
\* paid; a visit of checkout_success without a confirmed paid session leaves the
\* cart as it was.
C17_CartClearedOnlyAfterPayment ==
  [][EmptiesCart =>
       /\ last_op'.op = "checkout_success"
       /\ last_op'.order # 0
       /\ last_op'.arg # 0
       /\ stripe_sessions[last_op'.arg].payment_status = "paid"]_vars

\* C18: a webhook request whose signature or payload fails verification is answered
\* with 400 and changes nothing: no order status, Payment or invoice is created or
\* modified.
C18_UnverifiedWebhookChangesNothing ==
  [][last_op'.op = "webhook_rejected" =>
       /\ ~last_op'.ok
       /\ orders' = orders
       /\ payments' = payments
       /\ order_items' = order_items
       /\ stripe_sessions' = stripe_sessions]_vars

\* a request claiming the completion of a paid session has been refused while the
\* order is still PENDING and has no Payment marked paid
C18_Witness_ForgedCompletionRefused ==
  /\ last_op.op = "webhook_rejected"
  /\ stripe_sessions[last_op.arg].payment_status = "paid"
  /\ orders[last_op.order].status = "PENDING"
  /\ \A i \in PaymentsOf(payments, last_op.order) : ~payments[i].is_paid

(***************************************************************************)
(* SpecAddItem: add_item requests that carry the cookie of one session,    *)
(* their session accesses interleaved.  SessionMiddleware gives each       *)
(* request a store of its own: the first access of request.session loads   *)
(* the stored data, and the response saves the whole of the request's copy *)
(* when the handler modified it and the status is not 500.  threads.cart0  *)
(* is the cart the session held at first, threads.req[t] the request t:    *)
(* the dict of its body, its position and the session data it loaded.      *)
(***************************************************************************)
AddEntries ==
  {[EmptyDict EXCEPT !.id = PyInt(i), !.quantity = PyInt(q)] :
     i \in 1..(MaxMenuItem + 1), q \in 1..MaxLineQty}

AddCarts == {<<>>, <<[id |-> 1, quantity |-> 1]>>}

InitAddItem ==
  /\ ConfIdle
  /\ orders = <<>>
  /\ order_items = <<>>
  /\ payments = <<>>
  /\ stripe_sessions = <<>>
  /\ menu_price = [i \in MenuItemIds |-> 999]
  /\ last_op = NoOp
  /\ \E c \in AddCarts, b \in [Requests -> AddEntries] :
       /\ session = [AnonymousSession EXCEPT !.cart = c]
       /\ threads = [cart0 |-> c,
                     req |-> [t \in Requests |->
                                [body |-> b[t], pc |-> "start",
                                 loaded |-> AnonymousSession]]]
  /\ NormIdle
  /\ CouponIdle
  /\ TotalIdle

\* the body of add_item on the cart _cart_get returned: whether _cart_set ran, and
\* the list it was given
add_item(cart, raw) ==
  LET items == ViewsNormalizeItems(IdQtyDicts(cart))
      payload == ViewsNormalizeItems(<<raw>>)
  IN  IF payload = <<>> THEN [modified |-> FALSE, items |-> items]
      ELSE LET add == payload[1]
               hits == {i \in 1..Len(items) : items[i].id = add.id}
               first == CHOOSE i \in hits : \A j \in hits : i <= j
           IN  [modified |-> TRUE,
                items |-> IF hits = {} THEN Append(items, add)
                          ELSE [items EXCEPT ![first].quantity = @ + add.quantity]]

\* _cart_get: the request's store loads the session data
AddItemRead(t) ==
  /\ threads.req[t].pc = "start"
  /\ threads' = [threads EXCEPT !.req[t].pc = "read", !.req[t].loaded = session]
  /\ UNCHANGED <<dbvars, normvars, couponvars, totalvars>>

\* the rest of add_item and the response: the request's copy of the session, with the
\* cart _cart_set assigned, replaces the stored data; _enrich raises on an unknown
\* item, the response is a 500 and nothing is saved
AddItemSave(t) ==
  LET r == threads.req[t]
      a == add_item(r.loaded.cart, r.body)
  IN  /\ r.pc = "read"
      /\ IF a.modified /\ AllInMenu(a.items)
         THEN session' = [r.loaded EXCEPT !.cart = a.items]
         ELSE session' = session
      /\ threads' = [threads EXCEPT
                       !.req[t].pc = IF AllInMenu(a.items) THEN "done" ELSE "failed"]
      /\ UNCHANGED <<orders, order_items, payments, menu_price, stripe_sessions, last_op>>
      /\ UNCHANGED <<normvars, couponvars, totalvars, stripe_currency>>

NextAddItem ==
  \/ \E t \in Requests : AddItemRead(t)
  \/ \E t \in Requests : AddItemSave(t)

SpecAddItem == InitAddItem /\ [][NextAddItem]_vars

\* requests t and u, each adding one of item 1, have been answered and no other
\* request has touched the session
TwoAddsAnswered(t, u) ==
  /\ t # u
  /\ \A v \in Requests :
       IF v \in {t, u}
       THEN /\ threads.req[v].pc = "done"
            /\ threads.req[v].body = [EmptyDict EXCEPT !.id = PyInt(1), !.quantity = PyInt(1)]
       ELSE threads.req[v].pc = "start"

\* C19: when two add_item requests for the same item id (quantity 1 each) run
\* concurrently on one session whose cart is empty, the final session cart holds
\* that id exactly once with quantity 2: no update is lost.
C19_ConcurrentAddItemLosesNothing ==
  \A t, u \in Requests :
    (threads.cart0 = <<>> /\ TwoAddsAnswered(t, u))
      => session.cart = <<[id |-> 1, quantity |-> 2]>>

(***************************************************************************)
(* SpecSync: the customer of SpecPay while the order grows by merges and   *)
(* the deployment is restarted with another STRIPE_CURRENCY.               *)
(***************************************************************************)
StripeCurrencies == {"", "usd", "eur"}

InitSync ==
  /\ stripe_currency \in StripeCurrencies
  /\ menu_price = [i \in MenuItemIds |-> 999]
  /\ orders = <<>>
  /\ order_items = <<>>
  /\ payments = <<>>
  /\ stripe_sessions = <<>>
  /\ session = [cart |-> <<[id |-> 1, quantity |-> 1]>>, cart_meta |-> "", user |-> 1,
                coupon_code |-> "", applied_coupon |-> ""]
  /\ last_op = NoOp
  /\ threads = <<>>
  /\ NormIdle
  /\ CouponIdle
  /\ TotalIdle

\* the deployment is restarted with STRIPE_CURRENCY set to cur
Redeploy(cur) ==
  /\ cur # stripe_currency
  /\ stripe_currency' = cur
  /\ last_op' = Op("redeploy", 0, 0, TRUE)
  /\ UNCHANGED <<orders, order_items, payments, menu_price, session, stripe_sessions>>
  /\ UNCHANGED <<threads, normvars, couponvars, totalvars>>

NextSync ==
  \/ Merge
  \/ \E st \in RequestServiceTypes : Checkout(<<>>, st)
  \/ \E o \in 1..Len(orders) : CreateCheckoutSessionView(o)
  \/ \E k \in 1..Len(stripe_sessions) : PayAtStripe(k)
  \/ \E k \in 1..Len(stripe_sessions) : WebhookCompleted(k)
  \/ \E cur \in StripeCurrencies : Redeploy(cur)

SpecSync == InitSync /\ [][NextSync]_vars

\* the order has exactly one Payment, with the order's total and the configured currency
InSync(db, oid) ==
  /\ Cardinality(PaymentsOf(db.payments, oid)) = 1
  /\ \A i \in PaymentsOf(db.payments, oid) :
       /\ db.payments[i].amount = compute_order_total(db, oid)
       /\ db.payments[i].currency = Currency

\* at most one Payment per order, and each of the three services leaves the Payment
\* of the order it is called on in sync
PaymentKeptInSync ==
  \A oid \in 1..Len(orders) :
    /\ Cardinality(PaymentsOf(payments, oid)) <= 1
    /\ InSync(ensure_payment(Db, oid), oid)
    /\ InSync(create_checkout_session(Db, oid).db, oid)
    /\ \A sid \in 0..Len(stripe_sessions) : InSync(mark_paid(Db, oid, sid, sid), oid)

\* a Payment appears only in a checkout attempt or a payment confirmation of its
\* order, and a checkout that opened a hosted session or a handled completed event
\* leaves the Payment of its order in sync
PaymentCreatedLazily ==
  /\ \A oid \in 1..Len(orders') :
       (PaymentsOf(payments, oid) = {} /\ PaymentsOf(payments', oid) # {})
         => \/ last_op'.op = "create_session"
            \/ last_op'.op \in {"checkout", "webhook"} /\ last_op'.order = oid
  /\ (\/ last_op'.op = "webhook"
      \/ last_op'.op = "checkout" /\ last_op'.arg # 0)
       => InSync(DbAfter, last_op'.order)

IsMergeAgain ==
  /\ last_op.op \in {"merge", "login"}
  /\ last_op.ok
  /\ IsMerge
  /\ last_op'.order = last_op.order
  /\ session'.cart = session.cart

\* C21: merging is idempotent: merging the same unchanged session cart more than once
\* (the manual merge called twice, or the manual merge after the login merge) leaves
\* the PENDING order's lines and quantities the same as after the first merge.
C21_MergeIdempotent ==
  [][IsMergeAgain => order_items' = order_items]_vars

\* C22: checkout prefers the DB cart: when an authenticated user who has a PENDING
\* unpaid order calls OrderViewSet.create, no Order and no OrderItem is created; the
\* existing order is reused, its stored total is set to the sum of unit_price x
\* quantity of its existing lines, and the items of the request body and of the
\* session cart are ignored.
C22_CheckoutReusesPendingOrder ==
  [][(/\ session.user # 0
      /\ PendingOrders(orders, session.user) # {}
      /\ last_op'.op = "checkout")
       => /\ last_op'.ok
          /\ last_op'.order \in PendingOrders(orders, session.user)
          /\ Len(orders') = Len(orders)
          /\ order_items' = order_items
          /\ orders'[last_op'.order].subtotal = SumLines(order_items, last_op'.order, 1)
          /\ \A o \in 1..Len(orders) :
               o # last_op'.order => orders'[o] = orders[o]]_vars

\* a logged-in user whose session cart is not empty has checked out, and the order of
\* the checkout has a line of quantity 2, which only a merge makes: the order was
\* there before, and its total is that of its own lines, not of the session cart
C22_Witness_PendingOrderCheckedOut ==
  /\ last_op.op = "checkout"
  /\ last_op.ok
  /\ session.user # 0
  /\ session.cart # <<>>
  /\ orders[last_op.order].created_by = session.user
  /\ \E i \in LinesOf(order_items, last_op.order) : order_items[i].quantity = 2
  /\ orders[last_op.order].subtotal = SumLines(order_items, last_op.order, 1)
  /\ AllInMenu(SessionCart) /\ orders[last_op.order].subtotal # EnrichSubtotal(SessionCart)

(***************************************************************************)
(* SpecMenu: the session of Spec while the staff take items off the menu:  *)
(* an item that is in a session cart may no longer exist when the cart is  *)
(* merged.  One user logs in and out; nothing is checked out.              *)
(***************************************************************************)
InitMenu ==
  /\ ConfIdle
  /\ menu_price = [i \in 1..(MaxMenuItem + 1) |-> 999]
  /\ orders = <<>>
  /\ order_items = <<>>
  /\ payments = <<>>
  /\ stripe_sessions = <<>>
  /\ session = AnonymousSession
  /\ last_op = NoOp
  /\ threads = <<>>
  /\ NormIdle
  /\ CouponIdle
  /\ TotalIdle

\* the staff delete a MenuItem that no order line refers to
DeleteMenuItem(item) ==
  /\ item \in DOMAIN menu_price
  /\ \A i \in 1..Len(order_items) : order_items[i].menu_item # item
  /\ menu_price' = [j \in DOMAIN menu_price \ {item} |-> menu_price[j]]
  /\ last_op' = Op("delete_menu_item", 0, 0, TRUE)
  /\ UNCHANGED <<orders, order_items, payments, session, stripe_sessions>>
  /\ UNCHANGED <<threads, normvars, couponvars, totalvars, stripe_currency>>

NextMenu ==
  \/ \E l \in RequestItems : CartCreate(l)
  \/ \E i \in 1..(MaxMenuItem + 1) : DeleteMenuItem(i)
  \/ Merge
  \/ Login(1)
  \/ Logout

SpecMenu == InitMenu /\ [][NextMenu]_vars

\* the step is a merge (manual or on login) of a session cart that names a menu item
\* which does not exist
IsMergeOfMissingItem ==
  /\ last_op'.op \in {"merge", "login"}
  /\ session.cart # <<>>
  /\ ~AllInMenu(SessionCart)

\* C23: merge is all-or-nothing: if a merge (manual or on login) meets a session-cart
\* item whose menu item does not exist, the operation fails and the database is left
\* as before the call: no Order is created and no OrderItem is created or has its
\* quantity or unit_price changed, even for items processed before the failing one.
C23_MergeAllOrNothing ==
  [][IsMergeOfMissingItem =>
       /\ ~last_op'.ok
       /\ orders' = orders
       /\ order_items' = order_items]_vars

\* a manual merge has failed on a cart whose first item exists and whose later item
\* does not, for a user who had a PENDING order with a line of the first item
C23_Witness_FailedAfterFirstItem ==
  /\ last_op.op = "merge"
  /\ ~last_op.ok
  /\ session.cart # <<>>
  /\ session.cart[1].id \in DOMAIN menu_price
  /\ ~AllInMenu(SessionCart)
  /\ \E o \in PendingOrders(orders, session.user) :
       \E i \in LinesOf(order_items, o) : order_items[i].menu_item = session.cart[1].id

(***************************************************************************)
(* SpecReset: one browser session with every key the handlers keep in it:  *)
(* the cart, its meta, the logged-in user, the coupon code of              *)
(* apply_coupon_to_session and applied_coupon.  No handler of the          *)
(* repository writes applied_coupon; a session has it or not from the      *)
(* start.                                                                  *)
(***************************************************************************)
CouponCodes == {"SAVE10", "EXPIRED"}

\* find_active_coupon(code): the code of the coupon found ("" for None)
find_active_coupon(code) == IF code = "SAVE10" THEN code ELSE ""

InitReset ==
  /\ ConfIdle
  /\ menu_price = [i \in MenuItemIds |-> 999]
  /\ orders = <<>>
  /\ order_items = <<>>
  /\ payments = <<>>
  /\ stripe_sessions = <<>>
  /\ \E a \in {"", "SAVE10"} : session = [AnonymousSession EXCEPT !.applied_coupon = a]
  /\ last_op = NoOp
  /\ threads = <<>>
  /\ NormIdle
  /\ CouponIdle
  /\ TotalIdle

\* apply_coupon_to_session (login_required)
ApplyCouponToSession(code) ==
  /\ session.user # 0
  /\ session' = IF find_active_coupon(code) # ""
                THEN [session EXCEPT !.coupon_code = find_active_coupon(code)]
                ELSE session
  /\ last_op' = Op("apply_coupon", 0, 0, find_active_coupon(code) # "")
  /\ UNCHANGED <<orders, order_items, payments, menu_price, stripe_sessions>>
  /\ UNCHANGED <<threads, normvars, couponvars, totalvars, stripe_currency>>

NextReset ==
  \/ CartCreate(IdQtyDicts(OneItemCart))
  \/ \E st \in MetaBodies : SetMeta(st)
  \/ Login(1)
  \/ Logout
  \/ \E code \in CouponCodes : ApplyCouponToSession(code)
  \/ ResetSession

SpecReset == InitReset /\ [][NextReset]_vars

\* C24: reset_session removes exactly the session keys cart, cart_meta and
\* applied_coupon and leaves every other session key (the authentication keys and
\* any other stored key such as coupon_code) unchanged; it never flushes the session.
C24_ResetSessionPopsCartKeysOnly ==
  [][last_op'.op = "reset_session" =>
       /\ session'.cart = <<>>
       /\ session'.cart_meta = ""
       /\ session'.applied_coupon = ""
       /\ session'.user = session.user
       /\ session'.coupon_code = session.coupon_code
       /\ DbAfter = Db]_vars

\* the session of a logged-in user with a coupon code has been reset
C24_Witness_ResetKeepsLoginAndCoupon ==
  /\ last_op.op = "reset_session"
  /\ session.user = 1
  /\ session.coupon_code = "SAVE10"
  /\ session.cart = <<>>
  /\ orders # <<>>

(***************************************************************************)
(* SpecInvoice: the customer of SpecPay, every caller of                   *)
(* save_invoice_pdf_file at work: checkout, the webhook, checkout_success  *)
(* and the admin's "Regenerate invoice PDF" action.  Merges change the     *)
(* order's total after its invoice was stored.                             *)
(***************************************************************************)
\* OrderAdmin.regenerate_invoice_pdf on order oid
RegenerateInvoicePdf(oid) ==
  /\ SetDb(save_invoice_pdf_file(Db, oid))
  /\ last_op' = Op("regenerate_invoice", oid, 0, TRUE)
  /\ UNCHANGED <<menu_price, session, threads, normvars, couponvars, totalvars, stripe_currency>>

NextInvoice ==
  \/ Merge
  \/ \E st \in RequestServiceTypes : Checkout(<<>>, st)
  \/ \E k \in 1..Len(stripe_sessions) : PayAtStripe(k)
  \/ \E k \in 1..Len(stripe_sessions) : WebhookCompleted(k)
  \/ \E o \in 1..Len(orders), k \in 0..Len(stripe_sessions) : CheckoutSuccess(o, k)
  \/ \E o \in 1..Len(orders) : RegenerateInvoicePdf(o)

SpecInvoice == InitPay /\ [][NextInvoice]_vars

\* a call on an order with a stored invoice changes nothing; a call on an order
\* without one stores an invoice; a second call right after changes nothing
SaveInvoiceCreatesIfAbsent ==
  \A oid \in 1..Len(orders) :
    LET d == save_invoice_pdf_file(Db, oid)
    IN  /\ orders[oid].invoice_pdf.stored => d = Db
        /\ d.orders[oid].invoice_pdf.stored
        /\ save_invoice_pdf_file(d, oid) = d

\* no request changes an invoice that is stored
StoredInvoiceKept ==
  \A oid \in 1..Len(orders) :
    orders[oid].invoice_pdf.stored => orders'[oid].invoice_pdf = orders[oid].invoice_pdf

FreePrices == {0, 999}

\* the "items" of a request body: none, one entry that is dropped by
\* _normalize_items (id 0), one item
EmptyRequests ==
  {<<>>, <<[EmptyDict EXCEPT !.id = PyInt(0), !.quantity = PyInt(1)]>>,
   IdQtyDicts(OneItemCart)}

InitEmpty ==
  /\ ConfIdle
  /\ menu_price \in [MenuItemIds -> FreePrices]
  /\ orders = <<>>
  /\ order_items = <<>>
  /\ payments = <<>>
  /\ stripe_sessions = <<>>
  /\ session = AnonymousSession
  /\ last_op = NoOp
  /\ threads = <<>>
  /\ NormIdle
  /\ CouponIdle
  /\ TotalIdle

NextEmpty ==
  \/ \E l \in EmptyRequests : CartCreate(l)
  \/ \E i \in MenuItemIds, p \in FreePrices : SetPrice(i, p)
  \/ Login(1)
  \/ Logout
  \/ \E l \in EmptyRequests, st \in RequestServiceTypes : Checkout(l, st)

SpecEmpty == InitEmpty /\ [][NextEmpty]_vars

\* items_source of OrderViewSet.create for the body items l
ItemsSource(l) == IF ViewsNormalizeItems(l) # <<>> THEN ViewsNormalizeItems(l) ELSE SessionCart

\* no PENDING order is reused, and there is nothing to buy: no item, or a subtotal <= 0
NothingToBuy(l) ==
  /\ session.user = 0 \/ PendingOrders(orders, session.user) = {}
  /\ \/ ItemsSource(l) = <<>>
     \/ AllInMenu(ItemsSource(l)) /\ EnrichSubtotal(ItemsSource(l)) <= 0

\* C26: checkout with nothing to buy is rejected without side effects: when no
\* PENDING order is reused and both the request items and the session cart normalize
\* to an empty list, or the computed subtotal is <= 0, OrderViewSet.create returns
\* status 400 and creates no Order, OrderItem, Payment or checkout session.
C26_EmptyCheckoutRejected ==
  [][\A l \in EmptyRequests, st \in RequestServiceTypes :
       (NothingToBuy(l) /\ Checkout(l, st))
         => /\ CheckoutTransaction(Db, session.user, 0, ItemsSource(l),
                                   ChooseServiceType(st, session.cart_meta)).status = 400
            /\ ~last_op'.ok
            /\ DbAfter = Db]_vars

\* a logged-in user without a PENDING order, whose cart holds an item that costs
\* nothing, has been refused at checkout
C26_Witness_FreeCartRefused ==
  /\ last_op.op = "checkout"
  /\ ~last_op.ok
  /\ session.user # 0
  /\ PendingOrders(orders, session.user) = {}
  /\ session.cart # <<>>
  /\ AllInMenu(SessionCart)
  /\ EnrichSubtotal(SessionCart) = 0
  /\ orders = <<>>

(***************************************************************************)
(* SpecPaid: merges of one user interleaved with the confirmation of the   *)
(* payment of that user's PENDING order.  The order was checked out for    *)
(* DINE_IN and its hosted session has been paid.  A confirmation           *)
(* (stripe_webhook or checkout_success) loads the order and runs mark_paid *)
(* outside any transaction: each of its two saves is a statement of its    *)
(* own.                                                                    *)
(***************************************************************************)
PaidKinds == {"merge", "login", "confirm"}

\* user 1 has ordered one of item 1 for DINE_IN and paid on the hosted page; no
\* confirmation has been handled yet
AwaitingDb ==
  LET t == CheckoutTransaction(EmptyDb, 1, 0, <<[id |-> 1, quantity |-> 1]>>, "DINE_IN")
      c == create_checkout_session(t.db, 1)
  IN  [c.db EXCEPT !.stripe_sessions[1].payment_status = "paid",
                   !.stripe_sessions[1].payment_intent = 1]

\* requests of the given kinds are about to run against AwaitingDb
AwaitingInit(kinds) ==
  /\ ConfIdle
  /\ menu_price = [i \in MenuItemIds |-> 999]
  /\ orders = AwaitingDb.orders
  /\ order_items = AwaitingDb.order_items
  /\ payments = AwaitingDb.payments
  /\ stripe_sessions = AwaitingDb.stripe_sessions
  /\ session = AnonymousSession
  /\ last_op = NoOp
  /\ \E v \in Vendors, k \in [Requests -> kinds], c \in [Requests -> ConcItems] :
       threads = [vendor |-> v,
                  req |-> [t \in Requests |->
                             [kind |-> k[t], items |-> c[t], pc |-> "start",
                              found |-> IF k[t] = "confirm" THEN 1 ELSE 0,
                              row |-> NoRow, lock |-> "none"]]]
  /\ NormIdle
  /\ CouponIdle
  /\ TotalIdle

InitPaid == AwaitingInit(PaidKinds)

\* stripe_webhook / checkout_success load the order of the paid session
ConfirmLoad(t) ==
  LET r == threads.req[t]
  IN  /\ r.kind = "confirm"
      /\ r.pc = "start"
      /\ threads' = [threads EXCEPT !.req[t].pc = "loaded",
                                    !.req[t].row = orders[r.found]]
      /\ UNCHANGED <<dbvars, normvars, couponvars, totalvars>>

\* what the confirmation saves next: the Payment, then the status of the order; the
\* invoice is saved after them when the loaded instance has none
ConfirmEffect(t) ==
  LET r == threads.req[t]
      marked == mark_paid_Status(Db, r.found, r.row.status)
  IN  IF r.pc \in {"loaded", "paying"}
      THEN mark_paid_Payment(Db, r.found, stripe_sessions[1].payment_intent, 1)
      ELSE IF r.row.invoice_pdf.stored THEN marked
      ELSE save_invoice_pdf_file(marked, r.found)

\* a save of mark_paid.  postgresql: the statement is committed at once, the UPDATE
\* of the order row after waiting while a transaction holds the row's lock.
\* sqlite: the statement waits for the reserved lock of the file and takes it.
ConfirmWrite(t) ==
  LET r == threads.req[t]
  IN  /\ r.kind = "confirm"
      /\ r.pc \in {"loaded", "payment_saved"}
      /\ IF threads.vendor = "postgresql"
         THEN /\ r.pc = "payment_saved" =>
                   \A u \in Requests \ {t} :
                     ~(threads.req[u].lock = "row" /\ threads.req[u].found = r.found)
              /\ SetDb(ConfirmEffect(t))
              /\ threads' = [threads EXCEPT
                               !.req[t].pc = IF r.pc = "loaded" THEN "payment_saved"
                                             ELSE "done"]
         ELSE /\ \A u \in Requests \ {t} : threads.req[u].lock # "reserved"
              /\ UNCHANGED <<orders, order_items, payments, stripe_sessions>>
              /\ threads' = [threads EXCEPT
                               !.req[t].pc = IF r.pc = "loaded" THEN "paying" ELSE "marking",
                               !.req[t].lock = "reserved"]
      /\ UNCHANGED <<menu_price, session, last_op, normvars, couponvars, totalvars,
                     stripe_currency>>

\* sqlite: the statement's commit waits until no other transaction holds a lock on
\* the file
ConfirmCommit(t) ==
  LET r == threads.req[t]
  IN  /\ r.kind = "confirm"
      /\ r.pc \in {"paying", "marking"}
      /\ \A u \in Requests \ {t} : threads.req[u].lock = "none"
      /\ SetDb(ConfirmEffect(t))
      /\ threads' = [threads EXCEPT
                       !.req[t].pc = IF r.pc = "paying" THEN "payment_saved" ELSE "done",
                       !.req[t].lock = "none"]
      /\ UNCHANGED <<menu_price, session, last_op, normvars, couponvars, totalvars,
                     stripe_currency>>

NextPaid ==
  \/ \E t \in Requests : ConcSelect(t)
  \/ \E t \in Requests : ConcWrite(t)
  \/ \E t \in Requests : ConcCommit(t)
  \/ \E t \in Requests : ConfirmLoad(t)
  \/ \E t \in Requests : ConfirmWrite(t)
  \/ \E t \in Requests : ConfirmCommit(t)

SpecPaid == InitPaid /\ [][NextPaid]_vars

\* C27: a paid order is never modified: under any interleaving of merge and
\* login-merge requests with payment confirmation, no OrderItem of an order is
\* created or has its quantity or unit_price changed after that order's status has
\* become PAID.
C27_PaidOrderNeverModified ==
  [][\A i \in 1..Len(order_items') :
       (order_items'[i].order <= Len(orders) /\ orders[order_items'[i].order].status = "PAID")
         => i <= Len(order_items) /\ order_items'[i] = order_items[i]]_vars

\* every request has been answered, a merge that started before the confirmation has
\* written to the order and the order is PAID: the merge came first
C27_Witness_MergedThenPaid ==
  /\ AllAnswered
  /\ orders[1].status = "PAID"
  /\ \E t \in Requests : threads.req[t].kind # "confirm" /\ threads.req[t].pc = "done"
                           /\ threads.req[t].found = 1
  /\ \E t \in Requests : threads.req[t].kind = "confirm" /\ threads.req[t].pc = "done"

\* order o becomes PAID in this step, through the confirmation of a checkout session
BecomesPaidBySession(o) ==
  /\ orders[o].status # "PAID"
  /\ orders'[o].status = "PAID"
  /\ last_op'.op \in {"webhook", "checkout_success"}
  /\ last_op'.arg # 0

\* C28: whenever an order becomes PAID through confirmation of a checkout session,
\* the amount of that checkout session equals the order's total at the moment it
\* becomes PAID; items merged into the still-PENDING order after the session was
\* created cannot be marked paid by that earlier session.
C28_PaidForCurrentTotal ==
  [][\A o \in 1..Len(orders) :
       BecomesPaidBySession(o)
         => stripe_sessions[last_op'.arg].amount = compute_order_total(DbAfter, o)]_vars

(***************************************************************************)
(* SpecOverlap: merges and checkouts (OrderViewSet.create) of the user     *)
(* interleaved with the confirmation of the payment of the user's PENDING  *)
(* order.                                                                  *)
(***************************************************************************)
OverlapKinds == {"merge", "checkout", "confirm"}

InitOverlap == AwaitingInit(OverlapKinds)

SpecOverlap == InitOverlap /\ [][NextPaid]_vars

\* a confirmation has loaded the order and has not returned from mark_paid
MarkPaidInProgress ==
  \E t \in Requests : /\ threads.req[t].kind = "confirm"
                       /\ threads.req[t].pc \notin {"start", "done"}

\* the order has a Payment whose is_paid is true
HasPaidPayment(o) ==
  \E i \in 1..Len(payments) : payments[i].order = o /\ payments[i].is_paid

\* C29: in every state where no mark_paid call is in progress, an order's status is
\* PAID exactly when the order has a Payment record whose is_paid flag is true.
C29_PaidStateConsistent ==
  ~MarkPaidInProgress
    => \A o \in 1..Len(orders) : (orders[o].status = "PAID") <=> HasPaidPayment(o)

(***************************************************************************)
(* SpecCart: the session-cart requests of one browser, one after the       *)
(* other, starting from an empty cart: create (replace), add_item and      *)
(* remove_item.  The menu has the items 1..MaxMenuItem+1.                  *)
(***************************************************************************)
\* the dicts of the bodies: ids and quantities around zero, one id not in the menu
CartEntries ==
  {[EmptyDict EXCEPT !.id = PyInt(i), !.quantity = PyInt(q)] :
     i \in 0..(MaxMenuItem + 2), q \in 0..MaxLineQty}

CartBodies == UNION {[1..n -> CartEntries] : n \in 0..MaxCart}

\* the bodies of remove_item: {"menu_item_id": i}, {"id": i} and {}
RemoveBodies ==
  {[EmptyDict EXCEPT !.menu_item_id = PyInt(i)] : i \in 1..(MaxMenuItem + 1)}
    \cup {[EmptyDict EXCEPT !.id = PyInt(i)] : i \in 1..(MaxMenuItem + 1)}
    \cup {EmptyDict}

InitCart ==
  /\ ConfIdle
  /\ orders = <<>>
  /\ order_items = <<>>
  /\ payments = <<>>
  /\ stripe_sessions = <<>>
  /\ menu_price = [i \in 1..(MaxMenuItem + 1) |-> 999]
  /\ session = AnonymousSession
  /\ last_op = NoOp
  /\ threads = <<>>
  /\ NormIdle
  /\ CouponIdle
  /\ TotalIdle

\* SessionCartViewSet.add_item: the session is saved when _cart_set ran and _enrich
\* did not raise
AddItem(raw) ==
  LET a == add_item(session.cart, raw)
  IN  /\ LineQtysWithin(a.items)
      /\ session' = IF a.modified /\ AllInMenu(a.items)
                    THEN [session EXCEPT !.cart = a.items] ELSE session
      /\ last_op' = Op("add_item", 0, 0, AllInMenu(a.items))
      /\ UNCHANGED <<orders, order_items, payments, menu_price, stripe_sessions>>
      /\ UNCHANGED <<threads, normvars, couponvars, totalvars, stripe_currency>>

\* the list remove_item gives to _cart_set: int(pid) of a missing id raises and
\* pid is 0
remove_item(cart, raw) ==
  LET got == PyOr(Get(raw.menu_item_id), Get(raw.id))
      pid == IF CanInt(got) THEN ToInt(got) ELSE 0
  IN  SelectSeq(ViewsNormalizeItems(IdQtyDicts(cart)), LAMBDA it : it.id # pid)

\* SessionCartViewSet.remove_item
RemoveItem(raw) ==
  LET items == remove_item(session.cart, raw)
  IN  /\ session' = IF AllInMenu(items) THEN [session EXCEPT !.cart = items] ELSE session
      /\ last_op' = Op("remove_item", 0, 0, AllInMenu(items))
      /\ UNCHANGED <<orders, order_items, payments, menu_price, stripe_sessions>>
      /\ UNCHANGED <<threads, normvars, couponvars, totalvars, stripe_currency>>

NextCart ==
  \/ \E l \in CartBodies : CartCreate(l)
  \/ \E raw \in CartEntries : AddItem(raw)
  \/ \E raw \in RemoveBodies : RemoveItem(raw)

SpecCart == InitCart /\ [][NextCart]_vars

\* every stored entry has id > 0 and quantity > 0
StoredEntriesPositive ==
  \A i \in 1..Len(session.cart) : session.cart[i].id > 0 /\ session.cart[i].quantity > 0

\* C30: after any sequence of session-cart operations (create/replace, add_item,
\* remove_item) starting from an empty cart, the stored session cart contains at
\* most one entry per menu item id, and every stored entry has id > 0 and
\* quantity > 0.
C30_CartOneEntryPerItem ==
  /\ \A i, j \in 1..Len(session.cart) :
       i # j => session.cart[i].id # session.cart[j].id
  /\ StoredEntriesPositive

====
